---- MODULE Spec2Model ----
(***************************************************************************)
(* The editor store (editorStore.ts), the expression evaluator             *)
(* (evaluator) and the action pipeline (actionRunner.ts) of the UI         *)
(* builder, as a state machine.                                            *)
(*                                                                         *)
(* A component is a record                                                 *)
(*   [id, type, label, props, style, hasChildren, childrenKey, children]   *)
(* where hasChildren = FALSE stands for `children === undefined` (and then *)
(* children = <<>>) and childrenKey tells whether the object has an own    *)
(* property named `children` at all.  Open mappings of the tree (props,     *)
(* style) are sets of <<key, value>> pairs.  A position in the tree is a   *)
(* path: the sequence of 1-based child indexes leading from the root to    *)
(* the node.                                                               *)
(***************************************************************************)
EXTENDS Integers, Sequences, FiniteSets, TLC

VARIABLES root, selectedId, now, storeData, runs,
          evalTemplate, evalContext, evalResult,
          heap, rootRef, file, notice

vars == <<root, selectedId, now, storeData, runs,
          evalTemplate, evalContext, evalResult,
          heap, rootRef, file, notice>>

\* The part of the state the action pipeline works on.
pipelineVars == <<storeData, runs>>

\* The part of the state the tree operations work on.
treeVars == <<root, selectedId, now>>

\* One evaluation of a template by the renderer: the template, the context
\* it is evaluated against, and the value returned (Null before the call).
evalVars == <<evalTemplate, evalContext, evalResult>>

\* The tree as the objects it is made of: the cells of the heap and the
\* reference the store holds as `root`.
heapVars == <<heap, rootRef>>

\* The document the page exported last (Null before the first export) and
\* the alert the last import raised ("" when it raised none).
docVars == <<file, notice>>

(* ------------------------------ bounds -------------------------------- *)

\* The tree holds at most MaxNodes nodes besides the root.
MaxNodes == 2
\* Date.now() takes the values 0 .. MaxClock.
MaxClock == 1
\* Within one reading of Date.now() the tree grows to at most MaxSameTick
\* nodes besides the root.
MaxSameTick == 3

(* --------------------------- schema, helpers --------------------------- *)

ComponentType ==
    {"page", "container", "row", "column", "input", "button", "text",
     "image", "table", "select"}

\* The kinds the edit surface treats as containers.
ContainerKinds == {"page", "container", "row", "column"}

LeafKinds == ComponentType \ ContainerKinds

\* The component types the model's addComponent calls draw from: one
\* container kind and one leaf kind.
AddTypes == {"container", "button"}

\* An id that names no node of any tree of the model.
GhostId == "ghost"

\* `null` is the empty option, a value v is <<v>>.
Null == <<>>

Some(v) == <<v>>

SetMin(S) == CHOOSE m \in S : \A k \in S : m <= k

\* The first non-null option of a sequence of options, Null when none.
FirstFound(opts) ==
    LET hits == {i \in 1..Len(opts) : opts[i] # Null}
    IN  IF hits = {} THEN Null ELSE opts[SetMin(hits)]

\* The first index i with P(s[i]), 0 when none (Array.findIndex, 1-based).
FindIndexId(children, id) ==
    LET hits == {i \in 1..Len(children) : children[i].id = id}
    IN  IF hits = {} THEN 0 ELSE SetMin(hits)

\* Array.splice(idx, 1) at the 1-based index idx.
SpliceOut(s, idx) == [i \in 1..(Len(s) - 1) |-> IF i < idx THEN s[i] ELSE s[i + 1]]

\* Array.splice(k, 0, x): x becomes the element at 0-based index k.
SpliceIn(s, k, x) ==
    [i \in 1..(Len(s) + 1) |->
        IF i <= k THEN s[i] ELSE IF i = k + 1 THEN x ELSE s[i - 1]]

Swap(s, i, j) == [s EXCEPT ![i] = s[j], ![j] = s[i]]

initialRoot ==
    [id |-> "root", type |-> "page", label |-> "Page Root", props |-> {},
     hasChildren |-> TRUE, childrenKey |-> TRUE, children |-> <<>>,
     style |-> {<<"padding", "20px">>, <<"minHeight", "100%">>}]

RECURSIVE findNode(_, _)
\* Depth-first pre-order search: Some(node) or Null.
findNode(node, id) ==
    IF node.id = id THEN Some(node)
    ELSE IF node.hasChildren
         THEN FirstFound([i \in 1..Len(node.children) |->
                             findNode(node.children[i], id)])
         ELSE Null

RECURSIVE findAndModify(_, _)
\* The traversal of findAndModify: Some(path) of the node the callback is
\* called on (the first match in pre-order), Null when it returns false.
findAndModify(node, targetId) ==
    IF node.id = targetId THEN Some(<<>>)
    ELSE IF node.hasChildren
         THEN LET sub == [i \in 1..Len(node.children) |->
                             findAndModify(node.children[i], targetId)]
                  hits == {i \in 1..Len(sub) : sub[i] # Null}
              IN  IF hits = {} THEN Null
                  ELSE Some(<<SetMin(hits)>> \o sub[SetMin(hits)][1])
         ELSE Null

RECURSIVE NodeAt(_, _)
NodeAt(node, path) ==
    IF path = <<>> THEN node ELSE NodeAt(node.children[Head(path)], Tail(path))

RECURSIVE ReplaceAt(_, _, _)
\* The tree with the node at path replaced: how a callback's mutation of
\* the node it is handed shows in the cloned tree.
ReplaceAt(node, path, new) ==
    IF path = <<>> THEN new
    ELSE [node EXCEPT !.children[Head(path)] = ReplaceAt(@, Tail(path), new)]

Front(path) == SubSeq(path, 1, Len(path) - 1)

Last(path) == path[Len(path)]

RECURSIVE NodeCount(_)
NodeCount(node) ==
    LET RECURSIVE Sum(_)
        Sum(i) == IF i = 0 THEN 0 ELSE NodeCount(node.children[i]) + Sum(i - 1)
    IN  1 + Sum(Len(node.children))

RECURSIVE IdsOf(_)
IdsOf(node) ==
    {node.id} \cup UNION {IdsOf(node.children[i]) : i \in 1..Len(node.children)}

RECURSIVE Paths(_)
\* Every position of the tree.
Paths(node) ==
    {<<>>} \cup UNION {{<<i>> \o p : p \in Paths(node.children[i])} :
                          i \in 1..Len(node.children)}

(* ------------------------------ the store ------------------------------ *)

getComponentById(id) == findNode(root, id)

\* `${type}_${Date.now()}`
NewId(type, t) == type \o "_" \o ToString(t)

NewComponent(type, t) ==
    [id |-> NewId(type, t), type |-> type, label |-> type, props |-> {},
     hasChildren |-> type \in {"container", "row", "column"},
     childrenKey |-> TRUE, children |-> <<>>,
     style |-> IF type = "row"
               THEN {<<"display", "flex">>, <<"gap", "10px">>} ELSE {}]

\* The callback of addComponent on the node it is handed.
PushChild(node, newComponent) ==
    [node EXCEPT !.hasChildren = TRUE, !.childrenKey = TRUE,
                 !.children = Append(@, newComponent)]

\* The new root of addComponent(parentId, type) at clock reading t.
addComponent(parentId, type, t) ==
    LET newComponent == NewComponent(type, t)
        found == findAndModify(root, parentId)
    IN  IF parentId = "root" THEN PushChild(root, newComponent)
        ELSE IF found = Null THEN root
        ELSE ReplaceAt(root, found[1],
                       PushChild(NodeAt(root, found[1]), newComponent))

\* An assignment that merges the entries of a given mapping into the old
\* mapping of the node.
Assign_merging(node, updates) ==
    [f \in DOMAIN node \cup DOMAIN updates |->
        IF f \in DOMAIN updates
        THEN (IF f \in {"props", "style"} /\ f \in DOMAIN node
              THEN node[f] \cup updates[f] ELSE updates[f])
        ELSE node[f]]

\* Object.assign(node, updates)
Assign(node, updates) ==
    [f \in DOMAIN node \cup DOMAIN updates |->
        IF f \in DOMAIN updates THEN updates[f] ELSE node[f]]

updateComponent(id, updates) ==
    LET found == findAndModify(root, id)
    IN  IF found = Null THEN root
        ELSE ReplaceAt(root, found[1], Assign(NodeAt(root, found[1]), updates))

\* A deleteComponent that removes the node alone and leaves its children in
\* its place.
deleteComponent_hoisting(id) ==
    LET found == findAndModify(root, id)
    IN  IF id = "root" \/ found = Null \/ found[1] = <<>> THEN root
        ELSE LET pp == Front(found[1])
                 parent == NodeAt(root, pp)
                 index == Last(found[1])
             IN  ReplaceAt(root, pp,
                    [parent EXCEPT !.children =
                        SubSeq(@, 1, index - 1) \o @[index].children
                            \o SubSeq(@, index + 1, Len(@))])

\* The selected id deleteComponent(id) returns.
deleteComponentSelectedId(id) == IF id = "root" THEN selectedId ELSE Null

\* The new root of deleteComponent(id).
deleteComponent(id) ==
    LET found == findAndModify(root, id)
    IN  IF id = "root" \/ found = Null \/ found[1] = <<>> THEN root
        ELSE LET pp == Front(found[1])
                 parent == NodeAt(root, pp)
             IN  ReplaceAt(root, pp,
                    [parent EXCEPT !.children = SpliceOut(@, Last(found[1]))])

\* A moveComponent that wraps around at the ends of the child list.
moveComponent_wrapping(id, direction) ==
    LET found == findAndModify(root, id)
    IN  IF id = "root" \/ found = Null \/ found[1] = <<>> THEN root
        ELSE LET pp == Front(found[1])
                 parent == NodeAt(root, pp)
                 index == Last(found[1])
                 len == Len(parent.children)
                 newIndex == IF direction = "up"
                             THEN (IF index = 1 THEN len ELSE index - 1)
                             ELSE (IF index = len THEN 1 ELSE index + 1)
             IN  ReplaceAt(root, pp,
                    [parent EXCEPT !.children = Swap(@, index, newIndex)])

\* The new root of moveComponent(id, direction).
moveComponent(id, direction) ==
    LET found == findAndModify(root, id)
    IN  IF id = "root" \/ found = Null \/ found[1] = <<>> THEN root
        ELSE LET pp == Front(found[1])
                 parent == NodeAt(root, pp)
                 index == Last(found[1])
                 newIndex == IF direction = "up" THEN index - 1 ELSE index + 1
             IN  IF newIndex >= 1 /\ newIndex <= Len(parent.children)
                 THEN ReplaceAt(root, pp,
                        [parent EXCEPT !.children = Swap(@, index, newIndex)])
                 ELSE root

RECURSIVE removeNode(_, _)
\* moveComponentTo's removeNode: Some(path) of the child it splices out (the
\* first child named dragId of the first node, in pre-order, that has one),
\* Null when it returns false.
removeNode(node, dragId) ==
    IF ~node.hasChildren THEN Null
    ELSE LET idx == FindIndexId(node.children, dragId)
             sub == [i \in 1..Len(node.children) |->
                        removeNode(node.children[i], dragId)]
             hits == {i \in 1..Len(sub) : sub[i] # Null}
         IN  IF idx # 0 THEN Some(<<idx>>)
             ELSE IF hits = {} THEN Null
             ELSE Some(<<SetMin(hits)>> \o sub[SetMin(hits)][1])

\* The tree after removeNode spliced out the child at path.
Detach(tree, path) ==
    LET pp == Front(path)
        parent == NodeAt(tree, pp)
    IN  ReplaceAt(tree, pp, [parent EXCEPT !.children = SpliceOut(@, Last(path))])

\* A clamp that sends a negative index to the end of the list.
Clamp_fromEnd(index, len) ==
    IF index < 0 THEN len
    ELSE IF index < len THEN index ELSE len

\* Math.min(Math.max(index, 0), len)
Clamp(index, len) ==
    LET lo == IF index > 0 THEN index ELSE 0
    IN  IF lo < len THEN lo ELSE len

\* moveComponentTo's insertNode on the tree left by removeNode: Some(tree)
\* when it returns true, Null when the target is not found.
insertNode(tree, targetId, index, draggedNode) ==
    LET found == findAndModify(tree, targetId)
    IN  IF found = Null THEN Null
        ELSE LET node == NodeAt(tree, found[1])
                 safeIndex == Clamp(index, Len(node.children))
             IN  Some(ReplaceAt(tree, found[1],
                    [node EXCEPT !.hasChildren = TRUE, !.childrenKey = TRUE,
                                 !.children = SpliceIn(@, safeIndex, draggedNode)]))

\* A moveComponentTo that commits the tree even when the target was not found.
moveComponentTo_lossy(dragId, targetId, index) ==
    LET removed == removeNode(root, dragId)
    IN  IF dragId = "root" \/ dragId = targetId \/ removed = Null THEN root
        ELSE LET draggedNode == NodeAt(root, removed[1])
                 newRoot == Detach(root, removed[1])
                 inserted == insertNode(newRoot, targetId, index, draggedNode)
             IN  IF inserted = Null THEN newRoot ELSE inserted[1]

\* A moveComponentTo that inserts into the tree the node was not removed from.
moveComponentTo_copy(dragId, targetId, index) ==
    LET removed == removeNode(root, dragId)
    IN  IF dragId = "root" \/ dragId = targetId \/ removed = Null THEN root
        ELSE LET inserted == insertNode(root, targetId, index,
                                        NodeAt(root, removed[1]))
             IN  IF inserted = Null THEN root ELSE inserted[1]

\* The new root of moveComponentTo(dragId, targetId, index).
moveComponentTo(dragId, targetId, index) ==
    IF dragId = "root" THEN root
    ELSE IF dragId = targetId THEN root
    ELSE LET removed == removeNode(root, dragId)
         IN  IF removed = Null THEN root
             ELSE LET draggedNode == NodeAt(root, removed[1])
                      newRoot == Detach(root, removed[1])
                      inserted == insertNode(newRoot, targetId, index, draggedNode)
                  IN  IF inserted = Null THEN root ELSE inserted[1]

(* ------------------- the store's tree as objects ----------------------- *)
(***************************************************************************)
(* A component is an object; the tree the store holds is a reference to    *)
(* the root object.  A cell of the heap is a component with `kids`, the    *)
(* references of its children, in place of the children themselves.  Each  *)
(* operation of the store is run here as the code runs it: cloneDeep of    *)
(* the tree behind the store's reference, the callback's writes to the     *)
(* object it is handed, and the reference the returned state carries.      *)
(* When the operation has returned, the cells the store's reference does   *)
(* not lead to are released: a reader that still holds an earlier          *)
(* reference keeps its objects alive, and they are not tracked here, as no *)
(* operation is handed them.                                               *)
(***************************************************************************)

\* Room for the tree of the store, a clone of it and a new component.
HeapSize == 2 * (MaxNodes + 1) + 1

Addrs == 1..HeapSize

FreeCell == [free |-> TRUE]

Cell(node, kids) ==
    [id |-> node.id, type |-> node.type, label |-> node.label,
     props |-> node.props, style |-> node.style,
     hasChildren |-> node.hasChildren, childrenKey |-> node.childrenKey,
     kids |-> kids]

RECURSIVE Deref(_, _)
\* The tree a reference leads to.
Deref(h, a) ==
    [id |-> h[a].id, type |-> h[a].type, label |-> h[a].label,
     props |-> h[a].props, style |-> h[a].style,
     hasChildren |-> h[a].hasChildren, childrenKey |-> h[a].childrenKey,
     children |-> [i \in 1..Len(h[a].kids) |-> Deref(h, h[a].kids[i])]]

RECURSIVE Reach(_, _)
\* The cells a reference leads to.
Reach(h, a) == {a} \cup UNION {Reach(h, h[a].kids[i]) : i \in 1..Len(h[a].kids)}

RECURSIVE AddrAt(_, _, _)
\* The object at a position of the tree behind a reference.
AddrAt(h, a, path) ==
    IF path = <<>> THEN a ELSE AddrAt(h, h[a].kids[Head(path)], Tail(path))

RECURSIVE Store(_, _)
RECURSIVE StoreAll(_, _)
\* New objects for a tree: the heap with them and the reference of the root.
Store(h, node) ==
    LET a == SetMin({x \in Addrs : h[x] = FreeCell})
        r == StoreAll([h EXCEPT ![a] = Cell(node, <<>>)], node.children)
    IN  [heap |-> [r.heap EXCEPT ![a].kids = r.refs], ref |-> a]

StoreAll(h, nodes) ==
    IF nodes = <<>> THEN [heap |-> h, refs |-> <<>>]
    ELSE LET first == Store(h, Head(nodes))
             rest == StoreAll(first.heap, Tail(nodes))
         IN  [heap |-> rest.heap, refs |-> <<first.ref>> \o rest.refs]

InitialHeap == Store([a \in Addrs |-> FreeCell], initialRoot).heap

\* A clone that is the object itself.
cloneDeep_alias(h, ref) == [heap |-> h, ref |-> ref]

\* _.cloneDeep(state.root): new objects for the whole tree.
cloneDeep(h, ref) == Store(h, Deref(h, ref))

RECURSIVE Visit(_, _)
\* The cells a reference leads to, in pre-order.
Visit(h, a) ==
    LET RECURSIVE Kids(_)
        Kids(i) == IF i > Len(h[a].kids) THEN <<>>
                   ELSE Visit(h, h[a].kids[i]) \o Kids(i + 1)
    IN  <<a>> \o Kids(1)

\* The place of a cell in a visit: the first index it stands at.
PlaceIn(order, a) == SetMin({i \in 1..Len(order) : order[i] = a})

\* The heap when an operation has returned: the cells the references lead
\* to are kept, with what they share, and stand in the order the references
\* reach them; every other cell is released.  The result is the heap and
\* the references, in the order given.
Collect(h, refs) ==
    LET RECURSIVE All(_)
        All(i) == IF i > Len(refs) THEN <<>> ELSE Visit(h, refs[i]) \o All(i + 1)
        seen == All(1)
        firsts == SelectSeq([i \in 1..Len(seen) |-> <<i, seen[i]>>],
                            LAMBDA e : PlaceIn(seen, e[2]) = e[1])
        order == [i \in 1..Len(firsts) |-> firsts[i][2]]
    IN  [heap |-> [a \in Addrs |->
                      IF a > Len(order) THEN FreeCell
                      ELSE [h[order[a]] EXCEPT
                               !.kids = [k \in 1..Len(@) |-> PlaceIn(order, @[k])]]],
         refs |-> [i \in 1..Len(refs) |-> PlaceIn(order, refs[i])]]

\* addComponent on the objects: the heap after its writes and the reference
\* of the `root` it returns.
addComponentIn(h, ref, parentId, type, t) ==
    LET c == cloneDeep(h, ref)
        n == Store(c.heap, NewComponent(type, t))
        found == findAndModify(Deref(n.heap, c.ref), parentId)
        at == IF parentId = "root" THEN c.ref
              ELSE IF found = Null THEN 0
              ELSE AddrAt(n.heap, c.ref, found[1])
    IN  [heap |-> IF at = 0 THEN n.heap
                  ELSE [n.heap EXCEPT ![at].hasChildren = TRUE,
                                      ![at].childrenKey = TRUE,
                                      ![at].kids = Append(@, n.ref)],
         ref |-> c.ref]

updateComponentIn(h, ref, id, updates) ==
    LET c == cloneDeep(h, ref)
        found == findAndModify(Deref(c.heap, c.ref), id)
    IN  [heap |-> IF found = Null THEN c.heap
                  ELSE [c.heap EXCEPT ![AddrAt(c.heap, c.ref, found[1])] =
                                          Assign(@, updates)],
         ref |-> c.ref]

deleteComponentIn(h, ref, id) ==
    IF id = "root" THEN [heap |-> h, ref |-> ref]
    ELSE LET c == cloneDeep(h, ref)
             found == findAndModify(Deref(c.heap, c.ref), id)
         IN  [heap |-> IF found = Null \/ found[1] = <<>> THEN c.heap
                       ELSE [c.heap EXCEPT
                                ![AddrAt(c.heap, c.ref, Front(found[1]))].kids =
                                    SpliceOut(@, Last(found[1]))],
              ref |-> c.ref]

moveComponentIn(h, ref, id, direction) ==
    IF id = "root" THEN [heap |-> h, ref |-> ref]
    ELSE LET c == cloneDeep(h, ref)
             found == findAndModify(Deref(c.heap, c.ref), id)
             index == Last(found[1])
             newIndex == IF direction = "up" THEN index - 1 ELSE index + 1
             parent == AddrAt(c.heap, c.ref, Front(found[1]))
         IN  [heap |-> IF found = Null \/ found[1] = <<>> THEN c.heap
                       ELSE IF newIndex >= 1 /\ newIndex <= Len(c.heap[parent].kids)
                       THEN [c.heap EXCEPT ![parent].kids = Swap(@, index, newIndex)]
                       ELSE c.heap,
              ref |-> c.ref]

\* A moveComponentTo that inserts the dragged object at the target and
\* leaves it in the list it was found in.
moveComponentToIn_copy(h, ref, dragId, targetId, index) ==
    IF dragId = "root" \/ dragId = targetId THEN [heap |-> h, ref |-> ref]
    ELSE LET c == cloneDeep(h, ref)
             removed == removeNode(Deref(c.heap, c.ref), dragId)
             target == findAndModify(Deref(c.heap, c.ref), targetId)
         IN  IF removed = Null \/ target = Null THEN [heap |-> c.heap, ref |-> ref]
             ELSE [heap |-> [c.heap EXCEPT
                      ![AddrAt(c.heap, c.ref, target[1])] =
                          [@ EXCEPT !.hasChildren = TRUE,
                                    !.childrenKey = TRUE,
                                    !.kids = Append(@, AddrAt(c.heap, c.ref,
                                                              removed[1]))]],
                   ref |-> c.ref]

\* moveComponentTo on the objects; `return state` keeps the reference the
\* store held.
moveComponentToIn(h, ref, dragId, targetId, index) ==
    IF dragId = "root" \/ dragId = targetId THEN [heap |-> h, ref |-> ref]
    ELSE LET c == cloneDeep(h, ref)
             removed == removeNode(Deref(c.heap, c.ref), dragId)
         IN  IF removed = Null THEN [heap |-> c.heap, ref |-> ref]
             ELSE LET from == AddrAt(c.heap, c.ref, Front(removed[1]))
                      draggedNode == c.heap[from].kids[Last(removed[1])]
                      h1 == [c.heap EXCEPT ![from].kids = SpliceOut(@, Last(removed[1]))]
                      target == findAndModify(Deref(h1, c.ref), targetId)
                  IN  IF target = Null THEN [heap |-> h1, ref |-> ref]
                      ELSE [heap |-> [h1 EXCEPT
                                ![AddrAt(h1, c.ref, target[1])] =
                                    [@ EXCEPT !.hasChildren = TRUE,
                                              !.childrenKey = TRUE,
                                              !.kids = SpliceIn(@, Clamp(index, Len(@)),
                                                                draggedNode)]],
                            ref |-> c.ref]

(* ------------------------------ documents ------------------------------ *)
(* The exported document (App.tsx, handleSave and handleLoad).  A JSON     *)
(* value is a string JStr(s), an array JArr(items) or an object            *)
(* JObj(members), the sequence of its <<key, value>> members in the order   *)
(* of the text.  A JSON text is the sequence of its tokens: the brackets    *)
(* and braces, and the quoted strings; inside an object, keys and values    *)
(* alternate.                                                              *)

JStr(s) == [jstr |-> s]

JArr(items) == [jarr |-> items]

JObj(members) == [jobj |-> members]

Punct(c) == [p |-> c]

Quoted(s) == [q |-> s]

RECURSIVE Members(_)
\* The members of an open mapping of the tree, one after the other.
Members(pairs) ==
    IF pairs = {} THEN <<>>
    ELSE LET m == CHOOSE m \in pairs : TRUE
         IN  << <<m[1], JStr(m[2])>> >> \o Members(pairs \ {m})

RECURSIVE ToJson(_)
\* What JSON.stringify writes of a component: its own properties in the
\* order they were created, without those whose value is undefined.
ToJson(node) ==
    JObj(<< <<"id", JStr(node.id)>>, <<"type", JStr(node.type)>>,
            <<"label", JStr(node.label)>>,
            <<"props", JObj(Members(node.props))>> >>
         \o (IF node.hasChildren
             THEN << <<"children", JArr([i \in 1..Len(node.children) |->
                                            ToJson(node.children[i])])>> >>
             ELSE <<>>)
         \o << <<"style", JObj(Members(node.style))>> >>)

RECURSIVE Tokens(_)
\* The text of a JSON value.
Tokens(v) ==
    IF "jstr" \in DOMAIN v THEN <<Quoted(v.jstr)>>
    ELSE IF "jarr" \in DOMAIN v
    THEN LET RECURSIVE Items(_)
             Items(i) == IF i > Len(v.jarr) THEN <<>>
                         ELSE Tokens(v.jarr[i]) \o Items(i + 1)
         IN  <<Punct("[")>> \o Items(1) \o <<Punct("]")>>
    ELSE LET RECURSIVE Pairs(_)
             Pairs(i) == IF i > Len(v.jobj) THEN <<>>
                         ELSE <<Quoted(v.jobj[i][1])>> \o Tokens(v.jobj[i][2])
                                  \o Pairs(i + 1)
         IN  <<Punct("{")>> \o Pairs(1) \o <<Punct("}")>>

\* A serializer that writes the children of every node last child first.
stringifyDocument_reversing(tree) ==
    LET RECURSIVE Rev(_)
        Rev(node) ==
            [node EXCEPT !.children =
                [i \in 1..Len(@) |-> Rev(@[Len(@) + 1 - i])]]
    IN  Tokens(JObj(<< <<"version", JStr("1.0")>>,
                       <<"root", ToJson(Rev(tree))>> >>))

\* JSON.stringify({ version: '1.0', root }, null, 2)
stringifyDocument(tree) ==
    Tokens(JObj(<< <<"version", JStr("1.0")>>, <<"root", ToJson(tree)>> >>))

IsPunct(ts, i, c) == "p" \in DOMAIN ts[i] /\ ts[i].p = c

RECURSIVE ParseValue(_, _), ParseMembers(_, _, _), ParseItems(_, _, _)
\* The JSON value that starts at token i: Some([value, next]) with next the
\* position after it, Null when the text holds no value there.
ParseValue(ts, i) ==
    IF i > Len(ts) THEN Null
    ELSE IF "q" \in DOMAIN ts[i]
         THEN Some([value |-> JStr(ts[i].q), next |-> i + 1])
    ELSE IF IsPunct(ts, i, "{") THEN ParseMembers(ts, i + 1, <<>>)
    ELSE IF IsPunct(ts, i, "[") THEN ParseItems(ts, i + 1, <<>>)
    ELSE Null

\* The members of an object from token i to its closing brace.
ParseMembers(ts, i, acc) ==
    IF i > Len(ts) THEN Null
    ELSE IF IsPunct(ts, i, "}")
         THEN Some([value |-> JObj(acc), next |-> i + 1])
    ELSE IF "q" \notin DOMAIN ts[i] THEN Null
    ELSE LET v == ParseValue(ts, i + 1)
         IN  IF v = Null THEN Null
             ELSE ParseMembers(ts, v[1].next,
                               Append(acc, <<ts[i].q, v[1].value>>))

\* The items of an array from token i to its closing bracket.
ParseItems(ts, i, acc) ==
    IF i > Len(ts) THEN Null
    ELSE IF IsPunct(ts, i, "]")
         THEN Some([value |-> JArr(acc), next |-> i + 1])
    ELSE LET v == ParseValue(ts, i)
         IN  IF v = Null THEN Null
             ELSE ParseItems(ts, v[1].next, Append(acc, v[1].value))

\* JSON.parse of a document: Some(value), or Null for a SyntaxError.
parseDocument(ts) ==
    LET r == ParseValue(ts, 1)
    IN  IF r = Null \/ r[1].next # Len(ts) + 1 THEN Null
        ELSE Some(r[1].value)

\* json[key]: Some(value) of the last member of that name, Null for
\* undefined.
Member(json, key) ==
    IF "jobj" \notin DOMAIN json THEN Null
    ELSE LET hits == {i \in 1..Len(json.jobj) : json.jobj[i][1] = key}
         IN  IF hits = {} THEN Null
             ELSE Some(json.jobj[CHOOSE i \in hits : \A j \in hits : j <= i][2])

\* `if (json.root)`: undefined and the empty string are falsy.
Truthy(opt) == opt # Null /\ opt[1] # JStr("")

\* An open mapping of the tree from the JSON object read for it.
Mapping(json) ==
    {<<json.jobj[i][1], json.jobj[i][2].jstr>> : i \in 1..Len(json.jobj)}

RECURSIVE FromJson(_)
\* The component a parsed JSON object is: the keys of the text are its own
\* properties.
FromJson(json) ==
    LET kids == Member(json, "children")
    IN  [id |-> Member(json, "id")[1].jstr,
         type |-> Member(json, "type")[1].jstr,
         label |-> Member(json, "label")[1].jstr,
         props |-> Mapping(Member(json, "props")[1]),
         style |-> Mapping(Member(json, "style")[1]),
         hasChildren |-> kids # Null,
         childrenKey |-> kids # Null,
         children |-> IF kids = Null THEN <<>>
                      ELSE [i \in 1..Len(kids[1].jarr) |->
                               FromJson(kids[1].jarr[i])]]

\* The store's setRoot(newRoot): the new value of `root`.
setRoot(newRoot) == newRoot

\* A handleLoad that answers a document without a root with an empty page.
handleLoad_resetting(text) ==
    LET json == parseDocument(text)
    IN  IF json = Null THEN [root |-> root, alert |-> "Invalid JSON"]
        ELSE IF Truthy(Member(json[1], "root"))
        THEN [root |-> setRoot(FromJson(Member(json[1], "root")[1])),
              alert |-> ""]
        ELSE [root |-> initialRoot, alert |-> "Invalid schema file"]

\* The onload handler of handleLoad on the text of the chosen file: the
\* store's root after it and the alert it raised ("" for none).
handleLoad(text) ==
    LET json == parseDocument(text)
    IN  IF json = Null THEN [root |-> root, alert |-> "Invalid JSON"]
        ELSE IF Truthy(Member(json[1], "root"))
        THEN [root |-> setRoot(FromJson(Member(json[1], "root")[1])),
              alert |-> ""]
        ELSE [root |-> root, alert |-> "Invalid schema file"]

(* ----------------------- values, the evaluator ------------------------ *)
(***************************************************************************)
(* A JSON-like value is one of Undefined, Num(n), Str(s), Obj(m).  A       *)
(* string is the sequence of its characters, so that templates and dotted  *)
(* paths are scanned as the code scans them; an object is a function from  *)
(* keys (strings) to values.  The strings of the model are written over    *)
(* letters, digits, the space, ".", "{", "}", "=" and "-": no bracket,     *)
(* no quote, no line break, and no key is the name of a built-in property  *)
(* (length, constructor, ...) or a number.                                 *)
(***************************************************************************)

Undefined == [undef |-> TRUE]

Num(n) == [num |-> n]

Str(s) == [str |-> s]

Obj(m) == [obj |-> m]

IsStr(v) == DOMAIN v = {"str"}

IsObj(v) == DOMAIN v = {"obj"}

IsNum(v) == DOMAIN v = {"num"}

EmptyMap == [k \in {} |-> Undefined]

\* { ...a, ...b }: the keys of b take precedence.
Spread(a, b) ==
    [k \in DOMAIN a \cup DOMAIN b |-> IF k \in DOMAIN b THEN b[k] ELSE a[k]]

\* \w of a JavaScript regular expression, over the model's characters.
WordChars ==
    {"a", "b", "c", "d", "e", "f", "g", "h", "i", "j", "k", "l", "m", "n",
     "o", "p", "q", "r", "s", "t", "u", "v", "w", "x", "y", "z",
     "A", "J", "D", "M", "R",
     "0", "1", "2", "3", "4", "5", "6", "7", "8", "9", "_"}

\* \s of a JavaScript regular expression, over the model's characters.
SpaceChars == {" "}

RECURSIVE TrimLeft(_)
TrimLeft(s) ==
    IF s # <<>> /\ Head(s) \in SpaceChars THEN TrimLeft(Tail(s)) ELSE s

RECURSIVE TrimRight(_)
TrimRight(s) ==
    IF s # <<>> /\ s[Len(s)] \in SpaceChars
    THEN TrimRight(SubSeq(s, 1, Len(s) - 1)) ELSE s

\* String.prototype.trim, of the string as a value.
Trim(s) == CHOOSE t \in {TrimRight(TrimLeft(v)) : v \in {s}} : TRUE

\* Whether the two characters a, b stand at positions i, i + 1 of s.
PairAt(s, i, a, b) == i >= 1 /\ i + 1 <= Len(s) /\ s[i] = a /\ s[i + 1] = b

RECURSIVE Split(_, _)
\* String.prototype.split on a one-character separator.
Split(s, sep) ==
    LET hits == {i \in 1..Len(s) : s[i] = sep}
    IN  IF hits = {} THEN <<s>>
        ELSE <<SubSeq(s, 1, SetMin(hits) - 1)>>
                 \o Split(SubSeq(s, SetMin(hits) + 1, Len(s)), sep)

\* lodash isKey(value, object): the path is one property name, not a deep path.
isKey(path, object) ==
    \/ \A i \in 1..Len(path) : path[i] \in WordChars
    \/ ~(\E i \in 1..Len(path) : path[i] = ".")
    \/ (IsObj(object) /\ path \in DOMAIN object.obj)

\* lodash castPath(value, object)
castPath(path, object) ==
    IF isKey(path, object) THEN <<path>> ELSE Split(path, ".")

RECURSIVE baseGet(_, _)
\* lodash baseGet over a cast path: object[key] along the keys, undefined
\* as soon as a key is missing or the value reached is no object.
baseGet(object, keys) ==
    IF keys = <<>> THEN object
    ELSE IF IsObj(object) /\ Head(keys) \in DOMAIN object.obj
         THEN baseGet(object.obj[Head(keys)], Tail(keys))
         ELSE Undefined

\* lodash _.get(object, path, defaultValue); object and path are values
\* when get is called.
get(object, path, defaultValue) ==
    CHOOSE value \in
        {IF result = Undefined THEN defaultValue ELSE result :
            result \in {baseGet(o, castPath(p, o)) : o \in {object}, p \in {path}}} :
        TRUE

Digits == <<"0", "1", "2", "3", "4", "5", "6", "7", "8", "9">>

RECURSIVE NatToString(_)
NatToString(n) ==
    IF n < 10 THEN <<Digits[n + 1]>>
    ELSE NatToString(n \div 10) \o <<Digits[(n % 10) + 1]>>

\* String(value)
String(value) ==
    IF IsStr(value) THEN value.str
    ELSE IF IsNum(value)
         THEN (IF value.num < 0 THEN <<"-">> \o NatToString(0 - value.num)
               ELSE NatToString(value.num))
    ELSE IF IsObj(value)
         THEN <<"[", "o", "b", "j", "e", "c", "t", " ",
                "O", "b", "j", "e", "c", "t", "]">>
    ELSE <<"u", "n", "d", "e", "f", "i", "n", "e", "d">>

\* template.match(/^\s*\{\{(.+?)\}\}\s*$/): Some(the captured group), or Null.
pureMatch(template) ==
    LET t == Trim(template)
    IN  IF Len(t) >= 5 /\ PairAt(t, 1, "{", "{") /\ PairAt(t, Len(t) - 1, "}", "}")
        THEN Some(SubSeq(t, 3, Len(t) - 2)) ELSE Null

RECURSIVE replaceAll(_, _)
\* template.replace(/\{\{(.+?)\}\}/g, callback): at the first "{{" that a
\* "}}" follows after at least one character, the shortest such match is
\* replaced, and the scan goes on behind it.
replaceAll(s, context) ==
    LET opens == {i \in 1..Len(s) :
                    /\ PairAt(s, i, "{", "{")
                    /\ \E j \in (i + 3)..Len(s) : PairAt(s, j, "}", "}")}
    IN  IF opens = {} THEN s
        ELSE LET i == SetMin(opens)
                 j == SetMin({c \in (i + 3)..Len(s) : PairAt(s, c, "}", "}")})
                 path == SubSeq(s, i + 2, j - 1)
                 value == get(context, Trim(path), Str(<<>>))
             IN  SubSeq(s, 1, i - 1)
                     \o (IF value # Undefined THEN String(value) ELSE <<>>)
                     \o replaceAll(SubSeq(s, j + 2, Len(s)), context)

\* template.includes('{{')
includesOpen(s) == \E i \in 1..Len(s) : PairAt(s, i, "{", "{")

\* An evaluator without the pure mode: every reference is substituted as
\* text.
evaluateExpression_interpolating(template, context) ==
    IF ~IsStr(template) THEN template
    ELSE IF includesOpen(template.str)
         THEN Str(replaceAll(template.str, context))
    ELSE template

\* An evaluator that trims a string it finds no reference in.
evaluateExpression_trimming(template, context) ==
    IF ~IsStr(template) THEN template
    ELSE IF pureMatch(template.str) # Null
         THEN get(context, Trim(pureMatch(template.str)[1]), Undefined)
    ELSE IF includesOpen(template.str)
         THEN Str(replaceAll(template.str, context))
    ELSE Str(Trim(template.str))

\* evaluateExpression(template, context); template and context are values
\* when it is called.
evaluateExpression(template, context) ==
    CHOOSE value \in
        {IF ~IsStr(t) THEN t
         ELSE IF pureMatch(t.str) # Null
              THEN get(c, Trim(pureMatch(t.str)[1]), Undefined)
         ELSE IF includesOpen(t.str)
              THEN Str(replaceAll(t.str, c))
         ELSE t : t \in {template}, c \in {context}} :
        TRUE

(* ------------------------- the action pipeline ------------------------ *)
(***************************************************************************)
(* One invocation of runActions is a record of `runs`:                     *)
(*   actions, localContext   the arguments;                                *)
(*   globalData              `store.storeData`, taken once, when the       *)
(*                           invocation starts with a non-empty list; the  *)
(*                           merged context is built from it then, and     *)
(*                           neither changes afterwards (contextOf);       *)
(*   pc, phase               the action it stands at, and where: "fetch"   *)
(*                           (awaiting fetch), "json" (awaiting            *)
(*                           response.json()), "done";                     *)
(*   status                  of the promise runActions returned;           *)
(*   trace                   what it did, in order: "start" i, "log" /     *)
(*                           "alert" i, "write" i key value, "response" i, *)
(*                           "error" i (the catch block), "end" i;         *)
(*   requests                the fetch calls it made, each with the data   *)
(*                           context the store held at that moment;        *)
(*   settled                 how its outbound calls ended: "rejected" (the *)
(*                           fetch), "notjson" (the body), "ok" and the    *)
(*                           parsed response.                              *)
(* JavaScript runs an invocation from one await to the next without        *)
(* interleaving, so one step of the model is such a segment.               *)
(***************************************************************************)

\* The invocations runActions is started for.
MaxRuns == 2

cK == <<"k">>
cM == <<"m">>
cV == <<"v">>
cX == <<"x">>
cUser == <<"u", "s", "e", "r">>
cName == <<"n", "a", "m", "e">>
cEmail == <<"e", "m", "a", "i", "l">>
cApp == <<"a", "p", "p">>
cTitle == <<"t", "i", "t", "l", "e">>
cVersion == <<"v", "e", "r", "s", "i", "o", "n">>
cData == <<"d", "a", "t", "a">>
cValue == <<"v", "a", "l", "u", "e">>
cContext == <<"c", "o", "n", "t", "e", "x", "t">>
cLastResult == <<"l", "a", "s", "t", "R", "e", "s", "u", "l", "t">>
cUserName == cUser \o <<".">> \o cName
cDataName == cData \o <<".">> \o cName
cDataV == cData \o <<".">> \o cV
cAlice == <<"A", "l", "i", "c", "e">>

\* The initial test data of the store.
initialStoreData ==
    (cUser :> Obj((cName :> Str(<<"J", "o", "h", "n", " ", "D", "o", "e">>))
                  @@ (cEmail :> Str(<<"j", "o", "h", "n", "@", "e", "x", "a", "m", "p",
                                   "l", "e", ".", "c", "o", "m">>))))
    @@ (cApp :> Obj((cTitle :> Str(<<"M", "y", " ", "A", "w", "e", "s", "o", "m", "e",
                                   " ", "A", "p", "p">>))
                    @@ (cVersion :> Str(<<"1", ".", "0", ".", "0">>))))

\* A setStoreData that takes the key for a dotted path into the data.
setStoreData_nested(store, key, value) ==
    LET keys == Split(key, ".")
    IN  IF Len(keys) = 2 /\ keys[1] \in DOMAIN store /\ IsObj(store[keys[1]])
        THEN [store EXCEPT ![keys[1]] =
                 Obj([k \in DOMAIN @.obj \cup {keys[2]} |->
                         IF k = keys[2] THEN value ELSE @.obj[k]])]
        ELSE [k \in DOMAIN store \cup {key} |->
                 IF k = key THEN value ELSE store[k]]

\* setStoreData(key, value) on the data context the store holds.
setStoreData(store, key, value) ==
    [k \in DOMAIN store \cup {key} |-> IF k = key THEN value ELSE store[k]]

\* config[name], undefined when the key is absent.
Field(config, name) == IF name \in DOMAIN config THEN config[name] ELSE Undefined

\* JSON.parse of a body template: Some(value), or Null for a SyntaxError.
\* Over the model's characters (no quote, no bracket) a JSON text is `{}`,
\* a number or a literal; the body templates of the model hold no literal,
\* sign, fraction or exponent.
JSONparse(s) ==
    LET t == Trim(s)
    IN  IF t = <<"{", "}">> THEN Some(Obj(EmptyMap))
        ELSE IF t # <<>> /\ (\A i \in 1..Len(t) : t[i] \in {"0", "1", "2", "3", "4", "5", "6", "7", "8", "9"})
                  /\ (Len(t) = 1 \/ t[1] # "0")
             THEN LET RECURSIVE Val(_)
                      Val(n) == IF n = 0 THEN 0
                                ELSE 10 * Val(n - 1)
                                     + (CHOOSE d \in 0..9 : Digits[d + 1] = t[n])
                  IN  Some(Num(Val(Len(t))))
        ELSE Null

\* { ...body }: the own properties of the value, none for a number.
OwnProps(v) == IF IsObj(v) THEN v.obj ELSE EmptyMap

\* The body of the request before `context` is added.
requestBody(config, context) ==
    LET bodyTemplate == Field(config, "body")
    IN  IF bodyTemplate = Undefined \/ bodyTemplate = Str(<<>>) THEN EmptyMap
        ELSE IF IsStr(bodyTemplate)
             THEN (IF JSONparse(bodyTemplate.str) # Null
                   THEN OwnProps(JSONparse(bodyTemplate.str)[1])
                   ELSE (cValue :> evaluateExpression(bodyTemplate, context)))
        ELSE OwnProps(bodyTemplate)

\* A merged context in which the data context overrides the local context.
contextOf_globalFirst(run) == Spread(run.localContext, run.globalData)

\* const context = { ...globalData, ...localContext }
contextOf(run) == Spread(run.globalData, run.localContext)

NewRun(actions, localContext, store) ==
    [actions |-> actions, localContext |-> localContext,
     globalData |-> store,
     pc |-> 1, phase |-> "run", status |-> "pending",
     trace |-> <<>>, requests |-> <<>>, settled |-> <<>>]

Logged(st, ev, i, key, value) ==
    [st EXCEPT !.run.trace =
        Append(@, [ev |-> ev, idx |-> i, key |-> key, value |-> value])]

\* A write that puts the key into the data context the invocation read
\* when it started.
Write_stale(st, i, key, value) ==
    [Logged(st, "write", i, key, value) EXCEPT
        !.store = setStoreData(st.run.globalData, key, value)]

\* A write that the templates evaluated later in the invocation see.
Write_visible(st, i, key, value) ==
    [Logged(st, "write", i, key, value) EXCEPT
        !.store = setStoreData(@, key, value),
        !.run.globalData = setStoreData(st.store, key, value)]

\* store.setStoreData(key, value), called by action i.
Write(st, i, key, value) ==
    [Logged(st, "write", i, key, value) EXCEPT
        !.store = setStoreData(@, key, value)]

\* A fetch call whose body lets the keys of the base body override `context`.
Requested_contextFirst(st, i) ==
    LET config == st.run.actions[i].config[1]
        method == IF "method" \in DOMAIN config /\ config.method # ""
                  THEN config.method ELSE "POST"
        finalBody == Spread((cContext :> Obj(st.run.globalData)),
                            requestBody(config, Obj(contextOf(st.run))))
    IN  [st EXCEPT !.run.requests =
            Append(@, [idx |-> i, url |-> config.url, method |-> method,
                       body |-> IF method # "GET" THEN Some(Obj(finalBody))
                                ELSE Null,
                       storeData |-> st.store])]

\* The fetch call of the n8n-webhook action i.
Requested(st, i) ==
    LET config == st.run.actions[i].config[1]
        method == IF "method" \in DOMAIN config /\ config.method # ""
                  THEN config.method ELSE "POST"
        finalBody == Spread(requestBody(config, Obj(contextOf(st.run))),
                            (cContext :> Obj(st.run.globalData)))
    IN  [st EXCEPT !.run.requests =
            Append(@, [idx |-> i, url |-> config.url, method |-> method,
                       body |-> IF method # "GET" THEN Some(Obj(finalBody))
                                ELSE Null,
                       storeData |-> st.store])]

RECURSIVE mapEntries(_, _, _, _)
\* Object.entries(responseMapping).forEach(...) over the entries left.
mapEntries(st, i, entries, json) ==
    IF entries = <<>> THEN st
    ELSE LET stateKey == Head(entries)[1]
             responsePath == Head(entries)[2]
             value == get(json, responsePath, Undefined)
         IN  mapEntries(IF value # Undefined THEN Write(st, i, stateKey, value)
                        ELSE st,
                        i, Tail(entries), json)

\* A response handling that also writes the whole response under
\* `lastResult` when a mapping is configured.
mapResponse_always(st, i, json) ==
    LET config == st.run.actions[i].config[1]
    IN  Write(IF "responseMapping" \in DOMAIN config /\ config.responseMapping # <<>>
              THEN mapEntries(st, i, config.responseMapping, json)
              ELSE st,
              i, cLastResult, json)

\* What action i does with the parsed response. A responseMapping is the
\* sequence of its entries <<stateKey, responsePath>>, in insertion order.
mapResponse(st, i, json) ==
    LET config == st.run.actions[i].config[1]
    IN  IF "responseMapping" \in DOMAIN config /\ config.responseMapping # <<>>
        THEN mapEntries(st, i, config.responseMapping, json)
        ELSE Write(st, i, cLastResult, json)

KnownTypes == {"n8n-webhook", "setState", "consoleLog", "alert"}

RECURSIVE RunFrom(_, _)
RECURSIVE Iterate(_, _)
RECURSIVE AfterError(_, _)

\* An error of action i that is not caught: the loop ends and the promise
\* of runActions rejects.
AfterError_uncaught(st, i) ==
    [Logged(st, "error", i, <<>>, Undefined) EXCEPT
        !.run.phase = "done", !.run.status = "rejected", !.run.pc = i]

\* The catch block of action i, and the loop going on behind it.
AfterError(st, i) ==
    RunFrom(Logged(Logged(st, "error", i, <<>>, Undefined),
                   "end", i, <<>>, Undefined), i + 1)

\* The for loop from action i up to the next await, or to its end, on the
\* state st.
Iterate(st, i) ==
    IF i > Len(st.run.actions)
    THEN [st EXCEPT !.run.phase = "done", !.run.status = "resolved", !.run.pc = i]
    ELSE LET action == st.run.actions[i]
             s0 == Logged(st, "start", i, <<>>, Undefined)
             context == Obj(contextOf(st.run))
         IN  IF action.type \notin KnownTypes
             THEN RunFrom(Logged(s0, "end", i, <<>>, Undefined), i + 1)
             ELSE IF action.config = Null
             THEN AfterError(s0, i)
             ELSE IF action.type \in {"consoleLog", "alert"}
             THEN RunFrom(Logged(Logged(s0,
                             IF action.type = "alert" THEN "alert" ELSE "log", i, <<>>,
                             evaluateExpression(Field(action.config[1], "message"),
                                                context)),
                             "end", i, <<>>, Undefined), i + 1)
             ELSE IF action.type = "setState"
             THEN RunFrom(Logged(Write(s0, i, action.config[1].key,
                             evaluateExpression(Field(action.config[1], "value"),
                                                context)),
                             "end", i, <<>>, Undefined), i + 1)
             ELSE [Requested(s0, i) EXCEPT !.run.phase = "fetch", !.run.pc = i]

\* The loop going on from action i: the state it is handed is one value,
\* worked out before the loop reads it.
RunFrom(st, i) == CHOOSE next \in {Iterate(s, i) : s \in {st}} : TRUE

\* A runActions that waits while an outbound call of another invocation is
\* pending.
runActions_blocking(actions, localContext, store) ==
    IF \E r \in 1..Len(runs) : runs[r].phase \in {"fetch", "json"}
    THEN [run |-> [NewRun(actions, localContext, store) EXCEPT !.phase = "blocked"],
          store |-> store]
    ELSE IF actions = <<>>
    THEN [run |-> [NewRun(actions, localContext, EmptyMap) EXCEPT
                      !.phase = "done", !.status = "resolved"],
          store |-> store]
    ELSE RunFrom([run |-> NewRun(actions, localContext, store), store |-> store], 1)

\* runActions(actions, localContext) up to its first await.
runActions(actions, localContext, store) ==
    IF actions = <<>>
    THEN [run |-> [NewRun(actions, localContext, EmptyMap) EXCEPT
                      !.phase = "done", !.status = "resolved"],
          store |-> store]
    ELSE RunFrom([run |-> NewRun(actions, localContext, store), store |-> store], 1)

\* `await fetch(...)` of action i is fulfilled: response.json() is awaited.
fetchResolved(st, i) == [st EXCEPT !.run.phase = "json"]

\* `await fetch(...)` of action i rejects.
fetchRejected(st, i) == AfterError(st, i)

\* A failed response.json() that still runs the fallback write.
jsonRejected_fallback(st, i) ==
    RunFrom(Logged(Write(st, i, cLastResult, Undefined),
                   "end", i, <<>>, Undefined), i + 1)

\* `await response.json()` of action i rejects: the body is not JSON.
jsonRejected(st, i) == AfterError(st, i)

\* A response that is handled only after the rest of the list has run, as
\* when the call is not awaited.
jsonResolved_unawaited(st, i, json) ==
    LET rest == RunFrom(st, i + 1)
    IN  Logged(mapResponse(Logged(rest, "response", i, <<>>, json), i, json),
               "end", i, <<>>, Undefined)

\* `await response.json()` of action i is fulfilled with json.
jsonResolved(st, i, json) ==
    RunFrom(Logged(mapResponse(Logged(st, "response", i, <<>>, json), i, json),
                   "end", i, <<>>, Undefined), i + 1)

(* ------------------------------- inputs ------------------------------- *)

\* The ids the operations are called with: every id of the tree and one
\* that names no node.
CallIds == IdsOf(root) \cup {GhostId}

\* The indexes moveComponentTo is called with: below, inside and beyond
\* every child list.
CallIndexes == (0 - 1)..(MaxNodes + 1)

\* The field updates updateComponent is called with.
CallUpdates == {[label |-> "Label"]}

\* Updates of one field and of two fields, mappings among them.
CallUpdatesWide ==
    {[label |-> "Label"],
     [props |-> {<<"content", "Hi">>}, style |-> {<<"color", "red">>}]}

WebhookUrl == "https://n8n.example/webhook/test"

\* [setState(k, 1), n8n-webhook mapping k and `user.name`, setState(k, 2)]
ListA ==
    << [id |-> "a1", type |-> "setState",
        config |-> Some([key |-> cK, value |-> Num(1)])],
       [id |-> "a2", type |-> "n8n-webhook",
        config |-> Some([url |-> WebhookUrl,
                         responseMapping |-> << <<cK, cDataV>>,
                                                <<cUserName, cDataName>> >>])],
       [id |-> "a3", type |-> "setState",
        config |-> Some([key |-> cK, value |-> Num(2)])] >>

\* [consoleLog without a config, n8n-webhook without a mapping,
\*  setState(m, '{{ k }}')]
ListB ==
    << [id |-> "b1", type |-> "consoleLog", config |-> Null],
       [id |-> "b2", type |-> "n8n-webhook",
        config |-> Some([url |-> WebhookUrl, method |-> "POST"])],
       [id |-> "b3", type |-> "setState",
        config |-> Some([key |-> cM,
                         value |-> Str(<<"{", "{", " ", "k", " ", "}", "}">>)])] >>

\* [n8n-webhook with an empty mapping, setState(lastResult, 'x')]
ListC ==
    << [id |-> "c1", type |-> "n8n-webhook",
        config |-> Some([url |-> WebhookUrl, responseMapping |-> <<>>])],
       [id |-> "c2", type |-> "setState",
        config |-> Some([key |-> cLastResult, value |-> Str(cX)])] >>

\* The text `{{ k }}`.
cRefK == <<"{", "{", " ", "k", " ", "}", "}">>

\* [setState('{{ k }}', '{{ k }}')]
ListD ==
    << [id |-> "d1", type |-> "setState",
        config |-> Some([key |-> cRefK, value |-> Str(cRefK)])] >>

\* [consoleLog('{{ k }}'), alert('{{ k }}')]
ListE ==
    << [id |-> "e1", type |-> "consoleLog",
        config |-> Some([message |-> Str(cRefK)])],
       [id |-> "e2", type |-> "alert",
        config |-> Some([message |-> Str(cRefK)])] >>

\* The events runActions is called for: an action list and the local
\* context of the event.
CallEvents ==
    { [actions |-> ListA, localContext |-> (cValue :> Str(cX))],
      [actions |-> ListB, localContext |-> EmptyMap],
      [actions |-> ListC, localContext |-> EmptyMap],
      [actions |-> ListD, localContext |-> (cK :> Str(cX))],
      [actions |-> ListE, localContext |-> (cK :> Str(cX))],
      [actions |-> <<>>, localContext |-> EmptyMap] }

\* The JSON bodies the webhook answers with.
ResponseFull == Obj((cData :> Obj((cV :> Num(7)) @@ (cName :> Str(cAlice)))))

ResponsePartial == Obj((cData :> Obj((cName :> Str(cAlice)))))

ResponseEmpty == Obj(EmptyMap)

Responses == {ResponseFull, ResponsePartial, ResponseEmpty}

(* ------------------------------- actions ------------------------------- *)

Init ==
    /\ root = initialRoot
    /\ selectedId = Null
    /\ now = 0
    /\ storeData = initialStoreData
    /\ runs = <<>>
    /\ evalTemplate = Str(<<>>)
    /\ evalContext = EmptyMap
    /\ evalResult = Null
    /\ heap = InitialHeap
    /\ rootRef = 1
    /\ file = Null
    /\ notice = ""

\* Date.now() advances.
Tick ==
    /\ now < MaxClock
    /\ now' = now + 1
    /\ UNCHANGED <<root, selectedId, pipelineVars, evalVars, heapVars, docVars>>

SelectComponent ==
    \E id \in {Some(i) : i \in CallIds} \cup {Null} :
        /\ selectedId' = id
        /\ UNCHANGED <<root, now, pipelineVars, evalVars, heapVars, docVars>>

\* addComponent with a type of types, while the tree holds at most cap
\* nodes.
AddComponentOf(types, cap) ==
    \E parentId \in CallIds, type \in types :
        /\ NodeCount(root) <= cap
        /\ root' = addComponent(parentId, type, now)
        /\ selectedId' = Some(NewId(type, now))
        /\ UNCHANGED <<now, pipelineVars, evalVars, heapVars, docVars>>

AddComponent == AddComponentOf(AddTypes, MaxNodes)

\* updateComponent with one of the given updates.
UpdateComponentOf(given) ==
    \E id \in CallIds, updates \in given :
        /\ root' = updateComponent(id, updates)
        /\ UNCHANGED <<selectedId, now, pipelineVars, evalVars, heapVars, docVars>>

UpdateComponent == UpdateComponentOf(CallUpdates)

DeleteComponent ==
    \E id \in CallIds :
        /\ root' = deleteComponent(id)
        /\ selectedId' = deleteComponentSelectedId(id)
        /\ UNCHANGED <<now, pipelineVars, evalVars, heapVars, docVars>>

MoveComponent ==
    \E id \in CallIds, direction \in {"up", "down"} :
        /\ root' = moveComponent(id, direction)
        /\ UNCHANGED <<selectedId, now, pipelineVars, evalVars, heapVars, docVars>>

MoveComponentTo ==
    \E dragId \in CallIds, targetId \in CallIds, index \in CallIndexes :
        /\ root' = moveComponentTo(dragId, targetId, index)
        /\ UNCHANGED <<selectedId, now, pipelineVars, evalVars, heapVars, docVars>>

\* The structural operations of the store, on the initial tree.
Next ==
    \/ Tick
    \/ AddComponent
    \/ DeleteComponent
    \/ MoveComponent
    \/ MoveComponentTo

Spec == Init /\ [][Next]_vars

\* The state a segment of invocation r runs on.
StateOf(r) == [run |-> runs[r], store |-> storeData]

\* A step of an invocation that also clears the selection.
Stepped_deselecting(r, st) ==
    /\ runs' = [runs EXCEPT ![r] = st.run]
    /\ storeData' = st.store
    /\ selectedId' = Null
    /\ UNCHANGED <<root, now, evalVars, heapVars, docVars>>

\* Invocation r has run a segment and stands at st.
Stepped(r, st) ==
    /\ runs' = [runs EXCEPT ![r] = st.run]
    /\ storeData' = st.store
    /\ UNCHANGED <<treeVars, evalVars, heapVars, docVars>>

Settled(st, i, outcome, json) ==
    [st EXCEPT !.run.settled =
        Append(@, [idx |-> i, outcome |-> outcome, json |-> json])]

\* An event handler calls runActions for one of the events.
RunActionsOf(events) ==
    \E ev \in events :
        /\ Len(runs) < MaxRuns
        /\ LET st == runActions(ev.actions, ev.localContext, storeData)
           IN  /\ runs' = Append(runs, st.run)
               /\ storeData' = st.store
        /\ UNCHANGED <<treeVars, evalVars, heapVars, docVars>>

RunActions == RunActionsOf(CallEvents)

FetchResolves ==
    \E r \in 1..Len(runs) :
        /\ runs[r].phase = "fetch"
        /\ Stepped(r, fetchResolved(StateOf(r), runs[r].pc))

FetchRejects ==
    \E r \in 1..Len(runs) :
        /\ runs[r].phase = "fetch"
        /\ Stepped(r, fetchRejected(
               Settled(StateOf(r), runs[r].pc, "rejected", Undefined), runs[r].pc))

JsonResolves ==
    \E r \in 1..Len(runs), json \in Responses :
        /\ runs[r].phase = "json"
        /\ Stepped(r, jsonResolved(
               Settled(StateOf(r), runs[r].pc, "ok", json), runs[r].pc, json))

JsonRejects ==
    \E r \in 1..Len(runs) :
        /\ runs[r].phase = "json"
        /\ Stepped(r, jsonRejected(
               Settled(StateOf(r), runs[r].pc, "notjson", Undefined), runs[r].pc))

\* The action pipeline: invocations of runActions, interleaved at their awaits.
NextActions ==
    \/ RunActions
    \/ FetchResolves
    \/ FetchRejects
    \/ JsonResolves
    \/ JsonRejects

SpecActions == Init /\ [][NextActions]_vars

\* An outbound call that is waited for settles: fetch is fulfilled or
\* rejects, the body of the response is read or fails to parse.
Settles ==
    \/ FetchResolves
    \/ FetchRejects
    \/ JsonResolves
    \/ JsonRejects

\* The action pipeline when every outbound call settles in the end.
SpecActionsFair == Init /\ [][NextActions]_vars /\ WF_vars(Settles)

\* The page in use: clicks select a component in the editor and run the
\* actions of a component in the preview.
NextPreview ==
    \/ SelectComponent
    \/ RunActions
    \/ FetchResolves
    \/ FetchRejects
    \/ JsonResolves
    \/ JsonRejects

SpecPreview == Init /\ [][NextPreview]_vars

(* ----------------------- the evaluator, on its own --------------------- *)
(***************************************************************************)
(* The renderer evaluates a label or a prop against the data context on    *)
(* every render.  The template is a concatenation of at most MaxPieces     *)
(* pieces (references, bare delimiters, plain text), or a value that is no *)
(* string; the context is one of four mappings.                            *)
(***************************************************************************)

MaxPieces == 3

cA == <<"a">>
cB == <<"b">>
cAB == <<"a", ".", "b">>

pRefAB == <<"{", "{", " ", "a", ".", "b", " ", "}", "}">>
pRefA == <<"{", "{", " ", "a", " ", "}", "}">>
pOpen == <<"{", "{">>
pClose == <<"}", "}">>
pText == <<"x", "=">>
pSpace == <<" ">>
pDash == <<"-">>

TemplatePieces == {pRefAB, pRefA, pOpen, pClose, cA, pText, pSpace, pDash}

RECURSIVE Concat(_)
Concat(pieces) ==
    IF pieces = <<>> THEN <<>> ELSE Head(pieces) \o Concat(Tail(pieces))

\* The values passed as template that are no string.
NonStrings == {Num(5), Obj((cA :> Num(1))), Undefined}

Templates ==
    {Str(Concat(ps)) : ps \in UNION {[1..n -> TemplatePieces] : n \in 0..MaxPieces}}
        \cup NonStrings

\* { a: { b: 5 } }
ctxNested == (cA :> Obj((cB :> Num(5))))

\* { a: 7 }
ctxFlat == (cA :> Num(7))

\* { a: { b: 5 }, 'a.b': 'lit' }: a top-level key that holds a dot, as a
\* response mapping or a setState writes it.
ctxDotted == (cA :> Obj((cB :> Num(5)))) @@ (cAB :> Str(<<"l", "i", "t">>))

Contexts == {ctxNested, ctxFlat, ctxDotted, EmptyMap}

InitEval ==
    /\ root = initialRoot
    /\ selectedId = Null
    /\ now = 0
    /\ storeData = initialStoreData
    /\ runs = <<>>
    /\ evalTemplate \in Templates
    /\ evalContext \in Contexts
    /\ evalResult = Null
    /\ heap = InitialHeap
    /\ rootRef = 1
    /\ file = Null
    /\ notice = ""

\* The renderer calls evaluateExpression(template, context).
Evaluate ==
    /\ evalResult = Null
    /\ evalResult' = Some(evaluateExpression(evalTemplate, Obj(evalContext)))
    /\ UNCHANGED <<treeVars, pipelineVars, evalTemplate, evalContext, heapVars, docVars>>

NextEval == Evaluate

SpecEval == InitEval /\ [][NextEval]_vars

(* ------------------- the store on the objects of the tree -------------- *)

\* set(...) with the state an operation returned: the store takes the
\* reference, in one step.
Returned(res, newRoot, newSelectedId) ==
    /\ LET kept == Collect(res.heap, <<res.ref>>)
       IN  heap' = kept.heap /\ rootRef' = kept.refs[1]
    /\ root' = newRoot
    /\ selectedId' = newSelectedId
    /\ UNCHANGED <<now, pipelineVars, evalVars, docVars>>

StoreAdd ==
    \E parentId \in CallIds, type \in AddTypes :
        /\ NodeCount(root) <= MaxNodes
        /\ Returned(addComponentIn(heap, rootRef, parentId, type, now),
                    addComponent(parentId, type, now), Some(NewId(type, now)))

StoreUpdate ==
    \E id \in CallIds, updates \in CallUpdates :
        Returned(updateComponentIn(heap, rootRef, id, updates),
                 updateComponent(id, updates), selectedId)

StoreDelete ==
    \E id \in CallIds :
        Returned(deleteComponentIn(heap, rootRef, id),
                 deleteComponent(id), deleteComponentSelectedId(id))

StoreMove ==
    \E id \in CallIds, direction \in {"up", "down"} :
        Returned(moveComponentIn(heap, rootRef, id, direction),
                 moveComponent(id, direction), selectedId)

StoreMoveTo ==
    \E dragId \in CallIds, targetId \in CallIds, index \in CallIndexes :
        Returned(moveComponentToIn(heap, rootRef, dragId, targetId, index),
                 moveComponentTo(dragId, targetId, index), selectedId)

\* The store's operations on the objects of the tree, called without the
\* clock advancing in between.
NextHeap ==
    \/ StoreAdd
    \/ StoreUpdate
    \/ StoreDelete
    \/ StoreMove
    \/ StoreMoveTo

SpecHeap == Init /\ [][NextHeap]_vars

(* --------------------------- every kind -------------------------------- *)

\* addComponent with any ComponentType.
AddAnyKind == AddComponentOf(ComponentType, MaxNodes)

\* The store under additions of every kind, at one clock reading.
NextKinds ==
    \/ AddAnyKind
    \/ UpdateComponent
    \/ DeleteComponent
    \/ MoveComponent
    \/ MoveComponentTo

SpecKinds == Init /\ [][NextKinds]_vars

(* ----------------------- one clock reading ----------------------------- *)

\* addComponent, several times while Date.now() returns the same value.
AddSameTick == AddComponentOf(AddTypes, MaxSameTick)

\* The store while the clock stands still: additions of one type get the
\* same id.
NextSame ==
    \/ AddSameTick
    \/ UpdateComponent
    \/ DeleteComponent
    \/ MoveComponent
    \/ MoveComponentTo

SpecSame == Init /\ [][NextSame]_vars

(* ------------------------- the property panel -------------------------- *)

\* updateComponent from the fields of the property panel.
UpdateFields == UpdateComponentOf(CallUpdatesWide)

\* Components are added, selected and edited, at one clock reading.
NextUpdate ==
    \/ AddComponent
    \/ SelectComponent
    \/ UpdateFields

SpecUpdate == Init /\ [][NextUpdate]_vars

(* ----------------------- export and import ------------------------------ *)

\* A file that is no JSON text: the exported document cut before its last
\* token.
Truncated(text) == SubSeq(text, 1, Len(text) - 1)

\* A JSON document with no `root` member.
Rootless == Tokens(JObj(<< <<"version", JStr("1.0")>> >>))

\* A JSON document whose `root` member is the empty string.
EmptyRoot ==
    Tokens(JObj(<< <<"version", JStr("1.0")>>, <<"root", JStr("")>> >>))

\* A JSON text that is an array.
NotAnObject == Tokens(JArr(<< JStr("root") >>))

\* A tree made elsewhere: its root is not named `root`.
ForeignTree ==
    [id |-> "page_1", type |-> "page", label |-> "Imported", props |-> {},
     style |-> {}, hasChildren |-> TRUE, childrenKey |-> TRUE,
     children |-> << [id |-> "box_1", type |-> "container", label |-> "Box",
                      props |-> {}, style |-> {<<"gap", "4px">>},
                      hasChildren |-> TRUE, childrenKey |-> TRUE,
                      children |-> <<>>] >>]

\* The document of the tree made elsewhere.
ForeignFile == stringifyDocument(ForeignTree)

\* The files the user may choose for an import: the document exported last,
\* that document cut short, and documents that were not exported from this
\* store.
CallFiles ==
    (IF file = Null THEN {} ELSE {file[1], Truncated(file[1])})
        \cup {Rootless, EmptyRoot, NotAnObject, ForeignFile}

\* The Save button: the current tree is written to a file.
HandleSave ==
    /\ file' = Some(stringifyDocument(root))
    /\ UNCHANGED <<treeVars, pipelineVars, evalVars, heapVars, notice>>

\* The Load button with one of files chosen, and the reader's onload on its
\* text.
HandleLoadOf(files) ==
    \E text \in files :
        /\ root' = handleLoad(text).root
        /\ notice' = handleLoad(text).alert
        /\ UNCHANGED <<selectedId, now, pipelineVars, evalVars, heapVars, file>>

HandleLoad == HandleLoadOf(CallFiles)

\* Building a tree, exporting it and importing documents.
NextDoc ==
    \/ AddComponent
    \/ DeleteComponent
    \/ HandleSave
    \/ HandleLoad

SpecDoc == Init /\ [][NextDoc]_vars

\* A tree made elsewhere in which a child carries the id of the root.
TwinTree ==
    [ForeignTree EXCEPT !.children =
        Append(@, [id |-> "page_1", type |-> "text", label |-> "Twin",
                   props |-> {}, style |-> {}, hasChildren |-> FALSE,
                   childrenKey |-> FALSE, children |-> <<>>])]

TwinFile == stringifyDocument(TwinTree)

\* An import of a document made elsewhere.
LoadForeign == HandleLoadOf({ForeignFile, TwinFile})

\* The structural operations on the initial tree and on imported trees.
NextImport ==
    \/ LoadForeign
    \/ AddComponent
    \/ DeleteComponent
    \/ MoveComponent
    \/ MoveComponentTo

SpecImport == Init /\ [][NextImport]_vars

(* ------------------------ the webhook request -------------------------- *)

\* A list of one n8n-webhook action with the given config.
WebhookList(id, config) ==
    << [id |-> id, type |-> "n8n-webhook", config |-> Some(config)] >>

\* An object body that has a `context` key of its own.
BodyWithContext == Obj((cContext :> Str(cX)) @@ (cK :> Num(1)))

\* The configs of the webhook action: without method and body; GET with an
\* object body; an empty method; an object body with its own `context`; the
\* body texts `{}` and `7`, which parse; the body text `{{ k }}`, which
\* does not; the empty body text, which the body field of the action panel
\* holds once it is cleared.
RequestConfigs ==
    { [url |-> WebhookUrl],
      [url |-> WebhookUrl, method |-> "GET", body |-> Obj((cK :> Num(1)))],
      [url |-> WebhookUrl, method |-> "", body |-> Obj((cK :> Num(1)))],
      [url |-> WebhookUrl, method |-> "POST", body |-> BodyWithContext],
      [url |-> WebhookUrl, method |-> "PUT", body |-> Str(<<"{", "}">>)],
      [url |-> WebhookUrl, method |-> "POST", body |-> Str(<<"7">>)],
      [url |-> WebhookUrl, method |-> "POST", body |-> Str(cRefK)],
      [url |-> WebhookUrl, method |-> "POST", body |-> Str(<<>>)] }

\* The events of a page whose components carry one webhook action each.
RequestEvents ==
    { [actions |-> WebhookList("w1", config), localContext |-> (cK :> Str(cX))] :
        config \in RequestConfigs }

RunRequests == RunActionsOf(RequestEvents)

\* Webhook actions of every configuration, interleaved at their awaits.
NextRequest ==
    \/ RunRequests
    \/ FetchResolves
    \/ FetchRejects
    \/ JsonResolves
    \/ JsonRejects

SpecRequest == Init /\ [][NextRequest]_vars

(* ------------------------ the context snapshot ------------------------- *)

\* [setState(k, 1), setState(m, '{{ k }}'), consoleLog('{{ k }}'),
\*  n8n-webhook with the body text '{{ k }}' mapping k, alert('{{ k }}')]
ListF ==
    << [id |-> "f1", type |-> "setState",
        config |-> Some([key |-> cK, value |-> Num(1)])],
       [id |-> "f2", type |-> "setState",
        config |-> Some([key |-> cM, value |-> Str(cRefK)])],
       [id |-> "f3", type |-> "consoleLog",
        config |-> Some([message |-> Str(cRefK)])],
       [id |-> "f4", type |-> "n8n-webhook",
        config |-> Some([url |-> WebhookUrl, body |-> Str(cRefK),
                         responseMapping |-> << <<cK, cDataV>> >>])],
       [id |-> "f5", type |-> "alert",
        config |-> Some([message |-> Str(cRefK)])] >>

\* The events of a page with two buttons: one runs ListF, the other ListA.
SnapshotEvents ==
    { [actions |-> ListF, localContext |-> EmptyMap],
      [actions |-> ListA, localContext |-> (cValue :> Str(cX))] }

RunSnapshots == RunActionsOf(SnapshotEvents)

\* Lists that write k and read it in templates, interleaved at their awaits.
NextSnapshot ==
    \/ RunSnapshots
    \/ FetchResolves
    \/ FetchRejects
    \/ JsonResolves
    \/ JsonRejects

SpecSnapshot == Init /\ [][NextSnapshot]_vars

(* ---------------------- the store as one state ------------------------- *)
(***************************************************************************)
(* Every operation of the store hands `set` a partial state, or the state  *)
(* itself when it returns early, and `set` merges what it is handed into   *)
(* the state: the keys the partial state does not hold stay as they are.   *)
(***************************************************************************)

\* The state of the store: the tree, the selection and the data context.
StoreState == [root |-> root, selectedId |-> selectedId, storeData |-> storeData]

\* set(partial): the state with the keys of partial replaced.
Merge(state, partial) ==
    [k \in DOMAIN state |-> IF k \in DOMAIN partial THEN partial[k] ELSE state[k]]

selectComponentState(id) == [selectedId |-> id]

\* A setRoot that also clears the selection.
setRootState_deselecting(newRoot) == [root |-> setRoot(newRoot), selectedId |-> Null]

\* set({ root })
setRootState(newRoot) == [root |-> setRoot(newRoot)]

addComponentState(parentId, type, t) ==
    [root |-> addComponent(parentId, type, t), selectedId |-> Some(NewId(type, t))]

updateComponentState(id, updates) == [root |-> updateComponent(id, updates)]

deleteComponentState(id) ==
    IF id = "root" THEN StoreState
    ELSE [root |-> deleteComponent(id), selectedId |-> Null]

moveComponentState(id, direction) ==
    IF id = "root" THEN StoreState ELSE [root |-> moveComponent(id, direction)]

\* moveComponentTo reaches its last line: it returns { root: newRoot }.
MoveGoesThrough(dragId, targetId) ==
    /\ dragId # "root"
    /\ dragId # targetId
    /\ removeNode(root, dragId) # Null
    /\ findNode(Detach(root, removeNode(root, dragId)[1]), targetId) # Null

moveComponentToState(dragId, targetId, index) ==
    IF ~MoveGoesThrough(dragId, targetId)
    THEN StoreState
    ELSE [root |-> moveComponentTo(dragId, targetId, index)]

setStoreDataState(key, value) == [storeData |-> setStoreData(storeData, key, value)]

\* The store after set(partial); the clock, the pipeline and the files are
\* no part of it.
Commit(partial) ==
    /\ root' = Merge(StoreState, partial).root
    /\ selectedId' = Merge(StoreState, partial).selectedId
    /\ storeData' = Merge(StoreState, partial).storeData
    /\ UNCHANGED <<now, runs, evalVars, heapVars, file>>

\* The documents chosen for an import during the session.
SessionFiles == {ForeignFile, Rootless}

\* The values written to the data context during the session.
SessionData == {Num(1)}

SessionSelect ==
    \E id \in {Some(i) : i \in CallIds} \cup {Null} :
        Commit(selectComponentState(id)) /\ UNCHANGED notice

\* handleLoad: setRoot with the document's root, or an alert.
SessionLoad ==
    \E text \in SessionFiles :
        /\ notice' = handleLoad(text).alert
        /\ IF handleLoad(text).alert = ""
           THEN Commit(setRootState(handleLoad(text).root))
           ELSE Commit(StoreState)

SessionAdd ==
    \E parentId \in CallIds, type \in AddTypes :
        /\ NodeCount(root) <= MaxNodes
        /\ Commit(addComponentState(parentId, type, now))
        /\ UNCHANGED notice

SessionDelete ==
    \E id \in CallIds : Commit(deleteComponentState(id)) /\ UNCHANGED notice

SessionSetData ==
    \E value \in SessionData :
        Commit(setStoreDataState(cK, value)) /\ UNCHANGED notice

\* An editing session: nodes are added, selected and deleted, documents are
\* loaded and the data context is written.
NextSession ==
    \/ SessionSelect
    \/ SessionLoad
    \/ SessionAdd
    \/ SessionDelete
    \/ SessionSetData

SpecSession == Init /\ [][NextSession]_vars

(* --------------------------- the edit surface -------------------------- *)
(***************************************************************************)
(* The editor's handlers decide which call of the store an event becomes:  *)
(* handleAddComponent from the selected node, handleDragEnd from the       *)
(* dragged (active) and the dropped-on (over) element.  Each is modelled   *)
(* by the call it issues: Some(arguments), or Null when it issues none.    *)
(***************************************************************************)

RECURSIVE findParent(_, _)
\* App's findParent(root, id): Some(position of the first node, walking the
\* children in order and each child's subtree before the next child, that
\* has a child named id), Null when there is none.
findParent(node, id) ==
    IF ~node.hasChildren THEN Null
    ELSE LET at(i) == IF node.children[i].id = id THEN Some(<<>>)
                      ELSE IF findParent(node.children[i], id) = Null THEN Null
                      ELSE Some(<<i>> \o findParent(node.children[i], id)[1])
             hits == {i \in 1..Len(node.children) : at(i) # Null}
         IN  IF hits = {} THEN Null ELSE at(SetMin(hits))

\* const selectedComponent = selectedId ? getComponentById(selectedId) : null
selectedComponent ==
    IF selectedId = Null THEN Null ELSE getComponentById(selectedId[1])

\* handleAddComponent: the parentId of the addComponent call it makes, Null
\* when it alerts instead.
handleAddComponent ==
    IF selectedComponent = Null THEN Some("root")
    ELSE IF selectedComponent[1].type \in ContainerKinds
         THEN Some(selectedComponent[1].id)
    ELSE Null

\* handleDragEnd with active.id and over.id: the moveComponentTo call it
\* makes, Null when it makes none.
handleDragEnd(activeId, overId) ==
    LET activeParent == findParent(root, activeId)
        overParent == findParent(root, overId)
        overComponent == getComponentById(overId)
        indexOfOver == FindIndexId(NodeAt(root, overParent[1]).children, overId) - 1
    IN  IF activeId = overId THEN Null
        ELSE IF /\ activeParent # Null
                /\ overParent # Null
                /\ NodeAt(root, activeParent[1]).id = NodeAt(root, overParent[1]).id
        THEN Some([dragId |-> activeId,
                   targetId |-> NodeAt(root, activeParent[1]).id,
                   index |-> indexOfOver])
        ELSE IF overId = "root"
        THEN Some([dragId |-> activeId, targetId |-> "root",
                   index |-> Len(root.children)])
        ELSE IF overComponent # Null /\ overComponent[1].type \in ContainerKinds
        THEN Some([dragId |-> activeId, targetId |-> overId,
                   index |-> Len(overComponent[1].children)])
        ELSE IF overParent # Null
        THEN Some([dragId |-> activeId,
                   targetId |-> NodeAt(root, overParent[1]).id,
                   index |-> indexOfOver])
        ELSE Null

\* A document made elsewhere in which a container and a text carry the
\* same id.
ShadowTree ==
    [ForeignTree EXCEPT
        !.children[1].children =
            << [id |-> "x_1", type |-> "container", label |-> "Inner", props |-> {},
                style |-> {}, hasChildren |-> TRUE, childrenKey |-> TRUE,
                children |-> <<>>] >>,
        !.children = Append(@, [id |-> "x_1", type |-> "text", label |-> "Text",
                                props |-> {}, style |-> {}, hasChildren |-> FALSE,
                                childrenKey |-> FALSE, children |-> <<>>])]

\* The trees an editing session starts from: the initial one and two loaded
\* documents; in each, exactly the nodes of a container kind have a children
\* list.
StartTrees == {initialRoot, ForeignTree, ShadowTree}

InitSurface ==
    /\ root \in StartTrees
    /\ selectedId = Null
    /\ now = 0
    /\ storeData = initialStoreData
    /\ runs = <<>>
    /\ evalTemplate = Str(<<>>)
    /\ evalContext = EmptyMap
    /\ evalResult = Null
    /\ heap = InitialHeap
    /\ rootRef = 1
    /\ file = Null
    /\ notice = ""

\* A click on a button of the palette.
HandleAddComponent ==
    \E type \in AddTypes :
        /\ NodeCount(root) <= MaxNodes
        /\ handleAddComponent # Null
        /\ Commit(addComponentState(handleAddComponent[1], type, now))
        /\ UNCHANGED notice

\* The end of a drag of one element of the canvas over another.
HandleDragEnd ==
    \E activeId \in IdsOf(root), overId \in IdsOf(root) :
        /\ handleDragEnd(activeId, overId) # Null
        /\ LET call == handleDragEnd(activeId, overId)[1]
           IN  Commit(moveComponentToState(call.dragId, call.targetId, call.index))
        /\ UNCHANGED notice

\* The editor in use: nodes are selected, added from the palette and
\* dragged.
NextSurface ==
    \/ SessionSelect
    \/ HandleAddComponent
    \/ HandleDragEnd

SpecSurface == InitSurface /\ [][NextSurface]_vars

(* ------------------------- properties: the tree ------------------------ *)
(***************************************************************************)
(* The store's operations are functions of the tree and their arguments,   *)
(* and every one of them can be called in every state.  A property of      *)
(* every call is stated on the state the call is made in: for all          *)
(* arguments, the tree the call returns relates to `root` as claimed.      *)
(***************************************************************************)

\* The tree without the subtree at position p (p is not the root).
WithoutSubtree(tree, p) ==
    LET parent == NodeAt(tree, Front(p))
        kept == [i \in 1..(Len(parent.children) - 1) |->
                    parent.children[IF i < Last(p) THEN i ELSE i + 1]]
    IN  ReplaceAt(tree, Front(p), [parent EXCEPT !.children = kept])

\* The tree with sub as the child at 0-based position k of the node at q.
WithChild(tree, q, k, sub) ==
    LET target == NodeAt(tree, q)
        kids == [i \in 1..(Len(target.children) + 1) |->
                    IF i <= k THEN target.children[i]
                    ELSE IF i = k + 1 THEN sub
                    ELSE target.children[i - 1]]
    IN  ReplaceAt(tree, q, [target EXCEPT !.hasChildren = TRUE, !.childrenKey = TRUE,
                                       !.children = kids])

\* after is before with one subtree rooted at a node named dragId taken out
\* and put back whole, once, as a child of a node named targetId; nothing
\* else differs.
MovedOnce(before, after, dragId, targetId) ==
    \E p \in Paths(before) \ {<<>>} :
        /\ NodeAt(before, p).id = dragId
        /\ LET rest == WithoutSubtree(before, p)
           IN  \E q \in Paths(rest) :
                   /\ NodeAt(rest, q).id = targetId
                   /\ \E k \in 0..Len(NodeAt(rest, q).children) :
                          after = WithChild(rest, q, k, NodeAt(before, p))

\* The positions of the nodes named id.
PathsOf(tree, id) == {p \in Paths(tree) : NodeAt(tree, p).id = id}

IsProperPrefix(p, q) == Len(p) < Len(q) /\ SubSeq(q, 1, Len(p)) = p

\* Both ids name nodes, and every node named targetId is a proper descendant
\* of every node named dragId. With ids that name one node each: the
\* target is a proper descendant of the dragged node.
ProperDescendant(tree, dragId, targetId) ==
    /\ PathsOf(tree, dragId) # {}
    /\ PathsOf(tree, targetId) # {}
    /\ \A p \in PathsOf(tree, dragId), q \in PathsOf(tree, targetId) :
           IsProperPrefix(p, q)

\* C1: every call moveComponentTo(dragId, targetId, index) either returns
\* the tree it was called on, or a tree in which the dragged subtree, whole,
\* has been taken out and put back exactly once as a child of a node named
\* targetId, all other nodes as they were: the subtree is never lost and
\* never duplicated.
C1_MoveKeepsSubtree ==
    \A dragId \in CallIds, targetId \in CallIds, index \in CallIndexes :
        LET after == moveComponentTo(dragId, targetId, index)
        IN  after = root \/ MovedOnce(root, after, dragId, targetId)

\* A node created at clock reading 0 is a child of a container created at
\* reading 1: addComponent only appends a node to a parent that exists
\* already, so a moveComponentTo call has moved the node there.
C1_Witness_MovedUnderLaterParent ==
    \E p \in PathsOf(root, NewId("container", 1)) :
        \E i \in 1..Len(NodeAt(root, p).children) :
            NodeAt(root, p).children[i].id \in {NewId(t, 0) : t \in AddTypes}

\* C2: moveComponentTo returns the tree unchanged when the target is a
\* proper descendant of the dragged node, when dragId is the root, when
\* dragId equals targetId, and when dragId names no node.
C2_InvalidMoveIsNoop ==
    \A dragId \in CallIds, targetId \in CallIds, index \in CallIndexes :
        (\/ dragId = root.id
         \/ dragId = targetId
         \/ dragId \notin IdsOf(root)
         \/ ProperDescendant(root, dragId, targetId))
        => moveComponentTo(dragId, targetId, index) = root

\* A tree in which a node lies inside another node, whose move into it
\* returns the tree as it is.
C2_Witness_TargetInsideDragged ==
    \E dragId \in IdsOf(root) \ {root.id}, targetId \in IdsOf(root) :
        /\ dragId # targetId
        /\ ProperDescendant(root, dragId, targetId)
        /\ moveComponentTo(dragId, targetId, 0) = root

\* C3: no node of a leaf kind has a children list.
C3_LeafHasNoChildren ==
    \A p \in Paths(root) :
        NodeAt(root, p).type \in LeafKinds => ~NodeAt(root, p).hasChildren

\* C4: the ids of the nodes of the tree are pairwise distinct.
C4_UniqueIds == Cardinality(IdsOf(root)) = NodeCount(root)

\* C5: addComponent(parentId, type) returns the tree unchanged when parentId
\* resolves to no container-kind node (no node, or a leaf); otherwise the
\* new node is the last child of the node parentId resolves to, and all
\* other nodes and their order are as they were.
C5_AddOnlyIntoContainer ==
    \A parentId \in CallIds, type \in AddTypes :
        LET after == addComponent(parentId, type, now)
            at == PathsOf(root, parentId)
        IN  IF getComponentById(parentId) = Null
               \/ getComponentById(parentId)[1].type \notin ContainerKinds
            THEN after = root
            ELSE \E p \in at :
                    /\ NodeAt(root, p) = getComponentById(parentId)[1]
                    /\ after = WithChild(root, p, Len(NodeAt(root, p).children),
                                         NewComponent(type, now))

\* Position p comes before position q when the tree is walked in pre-order.
Before(p, q) ==
    \/ IsProperPrefix(p, q)
    \/ \E i \in 1..Len(p) :
           /\ i <= Len(q)
           /\ SubSeq(p, 1, i - 1) = SubSeq(q, 1, i - 1)
           /\ p[i] < q[i]

\* The position of the node an id names: the first one in pre-order when
\* several nodes carry the id.
PositionOf(tree, id) ==
    CHOOSE p \in PathsOf(tree, id) :
        \A q \in PathsOf(tree, id) \ {p} : Before(p, q)

\* C16: moveComponent(id, 'up') on the first child of its parent and
\* moveComponent(id, 'down') on the last child of its parent leave the tree
\* as it is, and so does moveComponent, in either direction, on the root and
\* on an id that names no node.
C16_ReorderAtEndIsNoop ==
    \A id \in CallIds :
        IF id = root.id \/ id \notin IdsOf(root)
        THEN moveComponent(id, "up") = root /\ moveComponent(id, "down") = root
        ELSE LET p == PositionOf(root, id)
                 parent == NodeAt(root, Front(p))
             IN  /\ Last(p) = 1 => moveComponent(id, "up") = root
                 /\ Last(p) = Len(parent.children)
                        => moveComponent(id, "down") = root

\* Two different nodes are the children of one parent: moving the first up
\* and the last down changes nothing, while moving the first down does.
C16_Witness_TwoSiblings ==
    \E a \in IdsOf(root), b \in IdsOf(root) :
        /\ a # b
        /\ PathsOf(root, a) = {<<1>>}
        /\ PathsOf(root, b) = {<<2>>}
        /\ NodeAt(root, <<1>>) # NodeAt(root, <<2>>)
        /\ moveComponent(a, "up") = root
        /\ moveComponent(b, "down") = root
        /\ moveComponent(a, "down") # root

\* C17: deleteComponent(id) with the root's id, or with an id that names no
\* node, changes nothing: the tree and the selected id it returns are those
\* of the state it is called in (it does not touch the data context).
C17_InvalidDeleteIsNoop ==
    \A id \in CallIds :
        (id = root.id \/ id \notin IdsOf(root))
            => /\ deleteComponent(id) = root
               /\ deleteComponentSelectedId(id) = selectedId

HeapCalls ==
    {[res |-> addComponentIn(heap, rootRef, parentId, type, now),
      tree |-> addComponent(parentId, type, now)] :
         parentId \in (IF NodeCount(root) <= MaxNodes THEN CallIds ELSE {}),
         type \in AddTypes}
    \cup {[res |-> updateComponentIn(heap, rootRef, id, updates),
           tree |-> updateComponent(id, updates)] :
              id \in CallIds, updates \in CallUpdates}
    \cup {[res |-> deleteComponentIn(heap, rootRef, id),
           tree |-> deleteComponent(id)] : id \in CallIds}
    \cup {[res |-> moveComponentIn(heap, rootRef, id, direction),
           tree |-> moveComponent(id, direction)] :
              id \in CallIds, direction \in {"up", "down"}}
    \cup UNION {{[res |-> moveComponentToIn(heap, rootRef, dragId, targetId, index),
                  tree |-> moveComponentTo(dragId, targetId, index)] :
                     dragId \in CallIds, targetId \in CallIds} :
                        index \in CallIndexes}

\* The objects that exist in a heap.
Live(h) == {a \in Addrs : h[a] # FreeCell}

\* C19: no structural operation writes an object that exists when it is
\* called, so a reader that holds the tree taken from the store before the
\* call sees it unchanged; the tree the operation returns is made of objects
\* of its own (an independent deep copy with the mutation applied); and the
\* store's reference leads to a whole tree at every moment: the one before
\* the call until the operation returns, the new one from then on.
C19_SnapshotIsolated ==
    /\ Deref(heap, rootRef) = root
    /\ \A call \in HeapCalls :
           /\ \A a \in Live(heap) : call.res.heap[a] = heap[a]
           /\ Deref(call.res.heap, rootRef) = root
           /\ Deref(call.res.heap, call.res.ref) = call.tree
           /\ call.res.ref # rootRef
                  => Reach(call.res.heap, call.res.ref) \cap Live(heap) = {}

\* The store holds a tree of three nodes, and a call made now returns
\* another tree while the three objects stay as they are.
C19_Witness_ReaderKeepsOldTree ==
    /\ NodeCount(root) = 3
    /\ Deref(heap, rootRef) = root
    /\ \E call \in HeapCalls :
           /\ call.res.ref # rootRef
           /\ Deref(call.res.heap, call.res.ref) # root
           /\ Deref(call.res.heap, rootRef) = root

(* ----------------------- properties: the pipeline ---------------------- *)

Range(f) == {f[x] : x \in DOMAIN f}

\* The entries of the trace that action i made.
EntriesOf(run, i) == SelectSeq(run.trace, LAMBDA e : e.idx = i)

\* The writes to the data context that action i made, in order.
WritesOf(run, i) ==
    LET w == SelectSeq(run.trace, LAMBDA e : e.idx = i /\ e.ev = "write")
    IN  [n \in 1..Len(w) |-> <<w[n].key, w[n].value>>]

IsWebhook(run, i) == run.actions[i].type = "n8n-webhook"

\* The trace is that of one pass in declared order: the entries of action i
\* stand before those of action i + 1, start with its "start", hold one
\* "start", and end with its "end" once a later action has an entry.
InDeclaredOrder(run) ==
    LET t == run.trace
    IN  /\ \A a \in 1..Len(t), b \in 1..Len(t) : a < b => t[a].idx <= t[b].idx
        /\ \A a \in 1..Len(t) :
               /\ (t[a].ev = "start") <=> (a = 1 \/ t[a - 1].idx < t[a].idx)
               /\ (a < Len(t) /\ t[a].idx < t[a + 1].idx)
                      => /\ t[a].ev = "end"
                         /\ t[a + 1].idx = t[a].idx + 1
        /\ (t # <<>> => t[1].idx = 1)

\* C6: within one invocation the actions take effect strictly in declared
\* order, action i + 1 starting only after action i, its outbound call and
\* its response mapping included, has settled; and when the list
\* [setState(k, 1), webhook mapping k, setState(k, 2)] has run alone to its
\* end, k is 2.
C6_DeclaredOrder ==
    /\ \A r \in 1..Len(runs) : InDeclaredOrder(runs[r])
    /\ (Len(runs) = 1 /\ runs[1].actions = ListA /\ runs[1].phase = "done")
           => storeData[cK] = Num(2)

\* ListA has run alone to its end, its webhook answered late enough to be
\* handled in a segment of its own and its response mapping wrote k (7).
C6_Witness_MappingThenSetState ==
    /\ Len(runs) = 1
    /\ runs[1].actions = ListA
    /\ runs[1].phase = "done"
    /\ <<cK, Num(7)>> \in Range(WritesOf(runs[1], 2))
    /\ storeData[cK] = Num(2)

\* The actions an invocation has started, in order.
Started(run) ==
    LET t == SelectSeq(run.trace, LAMBDA e : e.ev = "start")
    IN  [n \in 1..Len(t) |-> t[n].idx]

\* C7: an action that throws, or whose outbound call rejects or answers
\* with a body that is not JSON, aborts only itself: the next action of the
\* list is started, a finished invocation has started every action once and
\* in order, and the promise of runActions resolves, never rejects.
C7_FailureIsolated ==
    \A r \in 1..Len(runs) :
        LET run == runs[r]
        IN  /\ run.status # "rejected"
            /\ \A e \in Range(run.trace) :
                   (e.ev = "error" /\ e.idx < Len(run.actions))
                       => e.idx + 1 \in Range(Started(run))
            /\ run.phase = "done"
                   => /\ run.status = "resolved"
                      /\ Started(run) = [n \in 1..Len(run.actions) |-> n]

\* An invocation of ListB has ended resolved after its first action threw
\* and its outbound call failed, and its last action wrote m.
C7_Witness_FailedThenWent ==
    \E r \in 1..Len(runs) :
        /\ runs[r].actions = ListB
        /\ runs[r].phase = "done"
        /\ runs[r].status = "resolved"
        /\ \E e \in Range(runs[r].trace) : e.ev = "error" /\ e.idx = 1
        /\ \E e \in Range(runs[r].settled) :
               e.idx = 2 /\ e.outcome \in {"rejected", "notjson"}
        /\ WritesOf(runs[r], 3) # <<>>

\* C8: the `context` field of the body of every request equals the whole
\* data context of the store at the moment the request is issued.
C8_RequestCarriesCurrentData ==
    \A r \in 1..Len(runs) :
        \A req \in Range(runs[r].requests) :
            req.body # Null
                => /\ cContext \in DOMAIN req.body[1].obj
                   /\ req.body[1].obj[cContext] = Obj(req.storeData)

\* C9: an n8n-webhook action whose outbound call fails (the request
\* rejects, or the body is not JSON) writes nothing to the data context.
C9_FailedCallWritesNothing ==
    \A r \in 1..Len(runs) :
        \A e \in Range(runs[r].settled) :
            e.outcome \in {"rejected", "notjson"} => WritesOf(runs[r], e.idx) = <<>>

\* The call of ListA's webhook failed when its body was parsed, and the
\* invocation went on to its end.
C9_Witness_BodyNotJson ==
    \E r \in 1..Len(runs) :
        /\ runs[r].actions = ListA
        /\ runs[r].phase = "done"
        /\ \E e \in Range(runs[r].settled) : e.idx = 2 /\ e.outcome = "notjson"

RECURSIVE Descend(_, _)
\* The value the keys lead to in a JSON value, Undefined when a key is missing.
Descend(json, keys) ==
    IF keys = <<>> THEN json
    ELSE IF DOMAIN json = {"obj"} /\ Head(keys) \in DOMAIN json.obj
         THEN Descend(json.obj[Head(keys)], Tail(keys))
         ELSE Undefined

RECURSIVE Segments(_)
\* The keys of a dotted path.
Segments(path) ==
    IF \A i \in 1..Len(path) : path[i] # "." THEN <<path>>
    ELSE LET dot == CHOOSE i \in 1..Len(path) :
                        path[i] = "." /\ \A j \in 1..(i - 1) : path[j] # "."
         IN  <<SubSeq(path, 1, dot - 1)>> \o Segments(SubSeq(path, dot + 1, Len(path)))

\* The writes a response mapping asks for: for each entry whose path
\* resolves in the response, in order, the target key and the value.
RECURSIVE MappedWrites(_, _)
MappedWrites(entries, json) ==
    IF entries = <<>> THEN <<>>
    ELSE LET value == Descend(json, Segments(Head(entries)[2]))
         IN  (IF value = Undefined THEN <<>> ELSE << <<Head(entries)[1], value>> >>)
                 \o MappedWrites(Tail(entries), json)

\* The values written under key by any action of any invocation.
WrittenTo(key) ==
    UNION {{e.value : e \in {x \in Range(runs[r].trace) :
                                x.ev = "write" /\ x.key = key}} :
              r \in 1..Len(runs)}

\* The data context holds, under each key, the initial value or a value
\* written under exactly that key, and no key that was neither there
\* initially nor written.
StoreFromWrites ==
    \A key \in DOMAIN storeData \cup DOMAIN initialStoreData :
        /\ key \in DOMAIN storeData
        /\ IF WrittenTo(key) = {}
           THEN key \in DOMAIN initialStoreData
                    /\ storeData[key] = initialStoreData[key]
           ELSE storeData[key] \in WrittenTo(key)
                    \cup (IF key \in DOMAIN initialStoreData
                          THEN {initialStoreData[key]} ELSE {})

\* C10: an n8n-webhook action with a non-empty responseMapping and a JSON
\* response writes, for each pair whose path resolves, the resolved value
\* under the target key taken as one literal top-level key, and nothing
\* else: no write for a missing path, none to `lastResult`, none into a
\* nested object of the data context.
C10_MappingWritesLiteralKeys ==
    /\ StoreFromWrites
    /\ \A r \in 1..Len(runs) :
           \A e \in Range(runs[r].settled) :
               LET config == runs[r].actions[e.idx].config[1]
               IN  (e.outcome = "ok" /\ "responseMapping" \in DOMAIN config
                        /\ config.responseMapping # <<>>)
                   => WritesOf(runs[r], e.idx)
                          = MappedWrites(config.responseMapping, e.json)

\* ListA's webhook got the full response: `user.name` is a key of the data
\* context holding "Alice", and the object under `user` is as it was.
C10_Witness_DottedKeyWritten ==
    /\ \E r \in 1..Len(runs) :
           /\ runs[r].actions = ListA
           /\ \E e \in Range(runs[r].settled) :
                  e.idx = 2 /\ e.outcome = "ok" /\ e.json = ResponseFull
    /\ cUserName \in DOMAIN storeData
    /\ storeData[cUserName] = Str(cAlice)
    /\ storeData[cUser] = initialStoreData[cUser]

\* Action i of the run is an n8n-webhook whose responseMapping is absent or
\* empty.
Unmapped(run, i) ==
    /\ IsWebhook(run, i)
    /\ run.actions[i].config # Null
    /\ LET config == run.actions[i].config[1]
       IN  "responseMapping" \notin DOMAIN config \/ config.responseMapping = <<>>

\* Every unmapped webhook that got a JSON response wrote the whole response
\* under `lastResult` and nothing else.
FallbackWritten ==
    \A r \in 1..Len(runs) :
        \A e \in Range(runs[r].settled) :
            (e.outcome = "ok" /\ Unmapped(runs[r], e.idx))
                => WritesOf(runs[r], e.idx) = << <<cLastResult, e.json>> >>

\* The write e of the run is the fallback of an unmapped webhook that got
\* the JSON response it writes.
IsFallback(run, e) ==
    /\ Unmapped(run, e.idx)
    /\ \E x \in Range(run.settled) :
           x.idx = e.idx /\ x.outcome = "ok" /\ x.json = e.value

\* The configuration of the action that made the write e names `lastResult`
\* itself: as the key of a setState, or as a target of a responseMapping.
NamesLastResult(run, e) ==
    LET action == run.actions[e.idx]
    IN  /\ action.config # Null
        /\ \/ action.type = "setState" /\ action.config[1].key = cLastResult
           \/ /\ action.type = "n8n-webhook"
              /\ "responseMapping" \in DOMAIN action.config[1]
              /\ \E n \in 1..Len(action.config[1].responseMapping) :
                     action.config[1].responseMapping[n][1] = cLastResult

\* C11 (as amended): an n8n-webhook whose responseMapping is absent or empty
\* writes a successful JSON response whole under `lastResult` and changes no
\* other key; every other write to `lastResult` is one that an action's own
\* configuration asks for (a setState key or a responseMapping target).
C11_FallbackWritesLastResult ==
    /\ StoreFromWrites
    /\ FallbackWritten
    /\ \A r \in 1..Len(runs) :
           \A e \in Range(runs[r].trace) :
               (e.ev = "write" /\ e.key = cLastResult)
                   => IsFallback(runs[r], e) \/ NamesLastResult(runs[r], e)

\* C11 (as stated): the same, and `lastResult` is written by the pipeline in
\* no other circumstance than that fallback.
C11_LastResultOnlyFromFallback ==
    /\ FallbackWritten
    /\ \A r \in 1..Len(runs) :
           \A e \in Range(runs[r].trace) :
               (e.ev = "write" /\ e.key = cLastResult) => IsFallback(runs[r], e)

\* ListC's webhook, whose mapping is empty, got the full response and wrote
\* it under `lastResult`, which the data context holds.
C11_Witness_EmptyMappingFallback ==
    \E r \in 1..Len(runs) :
        /\ runs[r].actions = ListC
        /\ runs[r].phase = "done"
        /\ \E e \in Range(runs[r].settled) :
               e.idx = 1 /\ e.outcome = "ok" /\ e.json = ResponseFull
        /\ WritesOf(runs[r], 1) = << <<cLastResult, ResponseFull>> >>

(* ---------------------- properties: setState --------------------------- *)

\* The merged context of an invocation: every key of the data context it
\* started with and of the local context, the local value where both have
\* the key.
Merged(run) ==
    [k \in DOMAIN run.globalData \cup DOMAIN run.localContext |->
        IF k \in DOMAIN run.localContext THEN run.localContext[k]
        ELSE run.globalData[k]]

Ended(run, i) == \E e \in Range(run.trace) : e.idx = i /\ e.ev = "end"

\* C25: a setState action makes one write, under config.key as it is
\* written, of config.value evaluated against the merged context in which
\* the local context overrides the data context; the data context holds
\* nothing but what was there initially and what was written, each under
\* its own key.
C25_SetStateWritesVerbatimKey ==
    /\ StoreFromWrites
    /\ \A r \in 1..Len(runs) :
           \A i \in 1..Len(runs[r].actions) :
               LET action == runs[r].actions[i]
               IN  (action.type = "setState" /\ action.config # Null
                        /\ Ended(runs[r], i))
                       => WritesOf(runs[r], i) =
                              << <<action.config[1].key,
                                   evaluateExpression(
                                       Field(action.config[1], "value"),
                                       Obj(Merged(runs[r])))>> >>

\* ListD ran with a local k while the data context held another k: the
\* local value stands under the key `{{ k }}`.
C25_Witness_LocalOverridesData ==
    \E r \in 1..Len(runs) :
        /\ runs[r].actions = ListD
        /\ runs[r].phase = "done"
        /\ cK \in DOMAIN runs[r].globalData
        /\ runs[r].globalData[cK] # Str(cX)
        /\ cRefK \in DOMAIN storeData
        /\ storeData[cRefK] = Str(cX)

(* -------------------- properties: interleaved writes ------------------- *)

\* The writes made in a step, in the order they were made: the entries the
\* step added to the trace of the invocation that ran.
StepWrites ==
    LET ran == {r \in 1..Len(runs') : r > Len(runs) \/ runs'[r] # runs[r]}
        added(r) == SubSeq(runs'[r].trace,
                           (IF r > Len(runs) THEN 0 ELSE Len(runs[r].trace)) + 1,
                           Len(runs'[r].trace))
    IN  IF ran = {} THEN <<>>
        ELSE SelectSeq(added(CHOOSE r \in ran : TRUE), LAMBDA e : e.ev = "write")

\* C26: whichever invocation runs, and whatever the others wrote since it
\* started, a step leaves under every key it wrote the value of its last
\* write of that key, whole, and under every other key the value the data
\* context held when the step began; no key is dropped.
C26_WritesKeepOtherKeys ==
    [][LET w == StepWrites
           written == {w[n].key : n \in 1..Len(w)}
       IN  /\ DOMAIN storeData' = DOMAIN storeData \cup written
           /\ \A key \in DOMAIN storeData' :
                  IF key \in written
                  THEN LET last == CHOOSE n \in 1..Len(w) :
                                      /\ w[n].key = key
                                      /\ \A m \in (n + 1)..Len(w) : w[m].key # key
                       IN  storeData'[key] = w[last].value
                  ELSE storeData'[key] = storeData[key]]_vars

\* ListD started while ListA waited for its webhook and wrote its key;
\* ListA then went on and wrote k again: both keys stand.
C26_Witness_InterleavedLists ==
    /\ Len(runs) = 2
    /\ runs[1].actions = ListA /\ runs[1].phase = "done"
    /\ runs[2].actions = ListD /\ runs[2].phase = "done"
    /\ cK \in DOMAIN runs[2].globalData
    /\ runs[2].globalData[cK] = Num(1)
    /\ storeData[cRefK] = Str(cX)
    /\ storeData[cK] = Num(2)

(* -------------------- properties: pending calls ------------------------ *)

\* The invocations whose outbound call has not settled.
Pending == {r \in 1..Len(runs) : runs[r].phase \in {"fetch", "json"}}

\* The index of the first n8n-webhook action with a config, 0 when the list
\* has none.
FirstCall(actions) ==
    LET calls == {i \in 1..Len(actions) :
                     actions[i].type = "n8n-webhook" /\ actions[i].config # Null}
    IN  IF calls = {} THEN 0 ELSE SetMin(calls)

\* C27: while an invocation waits for its outbound call, runActions called
\* for any event runs its list up to that list's own first outbound call,
\* or to the end when it has none, its writes are in the data context when
\* it returns, the waiting invocations are left as they are, every other
\* waiting invocation can settle and go on, and the operations of the store
\* can be called.
C27_PendingBlocksOnlyItsList ==
    Pending # {} =>
        /\ \A ev \in CallEvents :
               LET st == runActions(ev.actions, ev.localContext, storeData)
                   first == FirstCall(ev.actions)
                   ran == IF first = 0 THEN Len(ev.actions) ELSE first
               IN  /\ Started(st.run) = [n \in 1..ran |-> n]
                   /\ st.run.phase = IF first = 0 THEN "done" ELSE "fetch"
                   /\ \A e \in Range(st.run.trace) :
                          e.ev = "write" =>
                              /\ e.key \in DOMAIN st.store
                              /\ st.store[e.key] \in
                                     {x.value : x \in {y \in Range(st.run.trace) :
                                                          y.ev = "write" /\ y.key = e.key}}
        /\ Len(runs) < MaxRuns => ENABLED RunActions
        /\ \A r \in Pending :
               /\ runs[r].phase = "fetch" =>
                      /\ fetchResolved(StateOf(r), runs[r].pc).run.phase = "json"
                      /\ fetchRejected(StateOf(r), runs[r].pc).run.pc > runs[r].pc
               /\ runs[r].phase = "json" =>
                      \A json \in Responses :
                          jsonResolved(StateOf(r), runs[r].pc, json).run.pc > runs[r].pc
        /\ ENABLED SelectComponent
        /\ NodeCount(root) <= MaxNodes => ENABLED AddComponent
        /\ ENABLED DeleteComponent
        /\ ENABLED MoveComponentTo

\* ListA still waits for its webhook while ListC, started after it, has
\* run to its end, its own webhook answered, and its writes are in the
\* data context.
C27_Witness_LaterListDone ==
    /\ Len(runs) = 2
    /\ runs[1].actions = ListA /\ runs[1].phase = "fetch"
    /\ runs[2].actions = ListC /\ runs[2].phase = "done"
    /\ \E e \in Range(runs[2].settled) : e.outcome = "ok"
    /\ storeData[cLastResult] = Str(cX)

(* ------------------ properties: the pipeline's reach ------------------- *)

\* C28: a step of an invocation of runActions, its first segment or one
\* after an outbound call settled, leaves the tree and the selected id as
\* they are and changes the data context under the keys it wrote only; a
\* consoleLog or alert action makes no write.
C28_PipelineWritesDataOnly ==
    [][runs' # runs =>
          /\ root' = root
          /\ selectedId' = selectedId
          /\ \A key \in DOMAIN storeData :
                 \/ key \in DOMAIN storeData' /\ storeData'[key] = storeData[key]
                 \/ \E n \in 1..Len(StepWrites) : StepWrites[n].key = key
          /\ \A r \in 1..Len(runs') :
                 \A i \in 1..Len(runs'[r].actions) :
                     runs'[r].actions[i].type \in {"consoleLog", "alert"}
                         => WritesOf(runs'[r], i) = <<>>]_vars

\* ListE has logged and alerted the local k while a component was
\* selected, and the data context is the initial one.
C28_Witness_LoggedAndAlerted ==
    /\ selectedId # Null
    /\ \E r \in 1..Len(runs) :
           /\ runs[r].actions = ListE
           /\ \E e \in Range(runs[r].trace) :
                  e.ev = "alert" /\ e.value = Str(cX)
           /\ \E e \in Range(runs[r].trace) :
                  e.ev = "log" /\ e.value = Str(cX)
    /\ storeData = initialStoreData

(* ---------------------- properties: the evaluator ---------------------- *)

\* The string holds the two-character delimiter d d somewhere.
HasPair(s, d) == \E i \in 1..Len(s) : PairAt(s, i, d, d)

\* The trimmed string is `{{`, a non-empty text holding neither delimiter,
\* `}}`: exactly one reference and nothing else.
IsOneReference(s) ==
    LET t == Trim(s)
    IN  /\ Len(t) >= 5
        /\ PairAt(t, 1, "{", "{")
        /\ PairAt(t, Len(t) - 1, "}", "}")
        /\ ~HasPair(SubSeq(t, 3, Len(t) - 2), "{")
        /\ ~HasPair(SubSeq(t, 3, Len(t) - 2), "}")

\* The path of a template that is exactly one reference.
PathOf(s) == Trim(SubSeq(Trim(s), 3, Len(Trim(s)) - 2))

\* The value a path names in a context: that of the top-level key spelled
\* exactly like the path when there is one, the value its dot-separated keys
\* lead to otherwise, Undefined when a key on the way is missing.
Resolve(ctx, path) ==
    IF path \in DOMAIN ctx THEN ctx[path] ELSE Descend(Obj(ctx), Segments(path))

\* The places where a reference starts: a `{{` that a `}}` follows behind
\* at least one character.
RefStarts(s) ==
    {i \in 1..Len(s) :
        /\ PairAt(s, i, "{", "{")
        /\ \E j \in (i + 3)..Len(s) : PairAt(s, j, "}", "}")}

RECURSIVE RefCount(_)
\* The number of references of a string, read from left to right.
RefCount(s) ==
    IF RefStarts(s) = {} THEN 0
    ELSE LET i == SetMin(RefStarts(s))
             j == SetMin({c \in (i + 3)..Len(s) : PairAt(s, c, "}", "}")})
         IN  1 + RefCount(SubSeq(s, j + 2, Len(s)))

RECURSIVE Substituted(_, _)
\* The string with every reference replaced by the string form of the value
\* its path names, by nothing when the path names none.
Substituted(s, ctx) ==
    IF RefStarts(s) = {} THEN s
    ELSE LET i == SetMin(RefStarts(s))
             j == SetMin({c \in (i + 3)..Len(s) : PairAt(s, c, "}", "}")})
             value == Resolve(ctx, Trim(SubSeq(s, i + 2, j - 1)))
         IN  SubSeq(s, 1, i - 1)
                 \o (IF value = Undefined THEN <<>> ELSE String(value))
                 \o Substituted(SubSeq(s, j + 2, Len(s)), ctx)

\* C12: a template that is, trimmed, exactly one reference evaluates to the
\* value found at its path with the type it has there (a number stays a
\* number, an object an object), and to undefined, which is no string, when
\* the path or a key on the way is missing.
C12_PureKeepsType ==
    (evalResult # Null /\ IsStr(evalTemplate) /\ IsOneReference(evalTemplate.str))
        => evalResult[1] = Resolve(evalContext, PathOf(evalTemplate.str))

\* ` {{ a.b }} ` was evaluated against { a: { b: 5 } } and gave the number 5.
C12_Witness_NumberStaysNumber ==
    /\ evalTemplate = Str(pSpace \o pRefAB \o pSpace)
    /\ evalContext = ctxNested
    /\ evalResult = Some(Num(5))

\* C13: a template that holds a reference together with other characters
\* evaluates to the string in which every reference is replaced by the
\* string form of its value, a missing path by the empty string, and every
\* other character is kept.
C13_InterpolationSubstitutes ==
    (evalResult # Null /\ IsStr(evalTemplate)
         /\ RefCount(evalTemplate.str) >= 1 /\ ~IsOneReference(evalTemplate.str))
        => evalResult[1] = Str(Substituted(evalTemplate.str, evalContext))

\* C14: the pure mode is chosen only for a template that is, trimmed,
\* exactly one reference: a result that is no string comes from such a
\* template, and a template with two or more references evaluates to the
\* string with each of them substituted.
C14_PureOnlyForOneReference ==
    (evalResult # Null /\ IsStr(evalTemplate))
        => /\ ~IsStr(evalResult[1]) => IsOneReference(evalTemplate.str)
           /\ RefCount(evalTemplate.str) >= 2
                  => evalResult[1] = Str(Substituted(evalTemplate.str, evalContext))

\* C15: a template that is no string, or a string without `{{`, is returned
\* unchanged, whatever the context.
C15_LiteralUnchanged ==
    (evalResult # Null /\ (~IsStr(evalTemplate) \/ ~HasPair(evalTemplate.str, "{")))
        => evalResult[1] = evalTemplate

\* The string `x= }}`, which holds no `{{`, was evaluated and came back as
\* it was.
C15_Witness_PlainString ==
    /\ evalTemplate = Str(pText \o pSpace \o pClose)
    /\ evalContext = ctxNested
    /\ evalResult = Some(evalTemplate)

(* --------------------- properties: the tree's shape -------------------- *)

RECURSIVE Below(_, _, _)
\* The objects that the references of an object lead to in 1 to n steps.
Below(h, a, n) ==
    IF n = 0 THEN {}
    ELSE LET kids == {h[a].kids[i] : i \in 1..Len(h[a].kids)}
         IN  kids \cup UNION {Below(h, k, n - 1) : k \in kids}

\* The places an object is listed at: the lists of children, among those
\* of cells, and the indexes it stands at.
Owners(h, cells, a) ==
    {<<b, i>> \in cells \X (1..HeapSize) :
        i <= Len(h[b].kids) /\ h[b].kids[i] = a}

\* What a reference leads to is one tree: the root is in no list of
\* children, every other object is in one list, once, and no object is
\* below itself.
SingleTree(h, ref) ==
    LET cells == {ref} \cup Below(h, ref, HeapSize)
    IN  /\ Owners(h, cells, ref) = {}
        /\ \A a \in cells \ {ref} : Cardinality(Owners(h, cells, a)) = 1
        /\ \A a \in cells : a \notin Below(h, a, HeapSize)

\* The calls of moveComponent and moveComponentTo that can be made now.
MoveCalls ==
    {moveComponentIn(heap, rootRef, id, direction) :
        id \in CallIds, direction \in {"up", "down"}}
    \cup UNION {{moveComponentToIn(heap, rootRef, dragId, targetId, index) :
                    dragId \in CallIds, targetId \in CallIds} :
                       index \in CallIndexes}

\* The nodes of a tree without their children: how many there are of each.
Census(h, ref) ==
    LET cells == {ref} \cup Below(h, ref, HeapSize)
        bare(a) == [h[a] EXCEPT !.kids = <<>>, !.hasChildren = TRUE,
                                !.childrenKey = TRUE]
    IN  [n \in {bare(a) : a \in cells} |->
            Cardinality({a \in cells : bare(a) = n})]

Shifted(p, r) ==
    IF /\ Len(p) >= Len(r)
       /\ SubSeq(p, 1, Len(r) - 1) = Front(r)
       /\ p[Len(r)] > Last(r)
    THEN [p EXCEPT ![Len(r)] = @ - 1]
    ELSE p

\* Position p lies in the subtree at position r.
Within(p, r) == Len(p) >= Len(r) /\ SubSeq(p, 1, Len(r)) = r

\* C29: for every id of the tree, getComponentById returns the first node
\* of that id in pre-order, updateComponent, deleteComponent and
\* moveComponent are handed that node, moveComponentTo takes that node out
\* when the id is the dragged one, and inserts into that node when the id
\* is the target (into no node when the target went out with the dragged
\* subtree).
C29_SameNodeAsGetComponentById ==
    \A id \in IdsOf(root) :
        LET p == PositionOf(root, id)
        IN  /\ getComponentById(id) = Some(NodeAt(root, p))
            /\ findAndModify(root, id) = Some(p)
            /\ p # <<>> => removeNode(root, id) = Some(p)
            /\ \A dragId \in IdsOf(root) \ {id, "root"} :
                  LET removed == removeNode(root, dragId)
                  IN  removed # Null =>
                        findAndModify(Detach(root, removed[1]), id) =
                            IF Within(p, removed[1]) THEN Null
                            ELSE Some(Shifted(p, removed[1]))

(* ------------------------ properties: the root ------------------------- *)

\* C23: deleteComponent, moveComponent and moveComponentTo called with the
\* id of the root leave the tree as it is, whatever the id of the root.
C23_RootStaysPut ==
    /\ deleteComponent(root.id) = root
    /\ \A direction \in {"up", "down"} : moveComponent(root.id, direction) = root
    /\ \A targetId \in CallIds, index \in CallIndexes :
           moveComponentTo(root.id, targetId, index) = root

(* ---------------------- properties: updates ---------------------------- *)

\* The fields of a node other than its children.
OwnFields == {"id", "type", "label", "props", "style", "hasChildren",
              "childrenKey"}

\* after is before with the fields of updates set, whole, on the node at
\* position p and with nothing else changed.
UpdatedAt(before, after, p, updates) ==
    /\ Paths(after) = Paths(before)
    /\ \A q \in Paths(before) :
           /\ DOMAIN NodeAt(after, q) = DOMAIN NodeAt(before, q)
           /\ \A f \in OwnFields :
                  NodeAt(after, q)[f] =
                      IF q = p /\ f \in DOMAIN updates THEN updates[f]
                      ELSE NodeAt(before, q)[f]

\* C30: updateComponent(id, updates) sets the fields of updates, each as a
\* whole, on the first node of that id and changes nothing else in the
\* tree; an id that names no node leaves the tree as it is; and a step that
\* updates a component leaves the selected id and the data context alone.
C30_UpdateIsShallowMerge ==
    /\ [](\A id \in CallIds, updates \in CallUpdatesWide :
             IF id \in IdsOf(root)
             THEN UpdatedAt(root, updateComponent(id, updates),
                            PositionOf(root, id), updates)
             ELSE updateComponent(id, updates) = root)
    /\ [][(\E id \in CallIds, updates \in CallUpdatesWide :
               root' # root /\ root' = updateComponent(id, updates))
              => selectedId' = selectedId /\ storeData' = storeData]_vars

\* Of two components under the root, one carries the updated label, props
\* and style and the other is as it was added; the root keeps its style.
C30_Witness_OneOfTwoUpdated ==
    /\ Len(root.children) = 2
    /\ root.children[1].label = "Label"
    /\ root.children[1].props = {<<"content", "Hi">>}
    /\ root.children[1].style = {<<"color", "red">>}
    /\ root.children[2] = NewComponent(root.children[2].type, 0)
    /\ root.style = initialRoot.style
    /\ selectedId = Some(root.children[2].id)

(* ------------------------ properties: kinds ---------------------------- *)

RECURSIVE KindCount(_, _)
\* The number of nodes of the tree of that kind.
KindCount(node, kind) ==
    LET RECURSIVE Sum(_)
        Sum(i) == IF i = 0 THEN 0
                  ELSE KindCount(node.children[i], kind) + Sum(i - 1)
    IN  (IF node.type = kind THEN 1 ELSE 0) + Sum(Len(node.children))

\* C22: exactly one node of the tree has kind `page`, and it is the root.
C22_OnePageAtRoot ==
    root.type = "page" /\ KindCount(root, "page") = 1

(* ---------------------- properties: the document ----------------------- *)

RECURSIVE WithoutUndefined(_)
\* The tree without the own properties whose value is undefined: a node
\* with no children list has no `children` key.
WithoutUndefined(node) ==
    [node EXCEPT !.childrenKey = node.hasChildren,
                 !.children = [i \in 1..Len(@) |-> WithoutUndefined(@[i])]]

C21_ImportAllOrNothing ==
    \A text \in CallFiles :
        LET json == parseDocument(text)
            carried == IF json = Null THEN Null ELSE Member(json[1], "root")
            after == handleLoad(text)
        IN  /\ carried = Null => after.root = root /\ after.alert # ""
            /\ after.root # root =>
                  carried # Null /\ after.root = FromJson(carried[1])
            /\ after.alert = "" =>
                  carried # Null /\ after.root = FromJson(carried[1])

\* An import was rejected while the store held a tree with a node besides
\* the root, and the document exported from that tree is at hand.
C21_Witness_RejectedImport ==
    /\ notice \in {"Invalid JSON", "Invalid schema file"}
    /\ NodeCount(root) > 1
    /\ file # Null

(* ---------------------- properties: reordering ------------------------- *)

\* The tree with the children at 1-based positions i and j of the node at
\* position q exchanged, and nothing else changed.
Exchanged(tree, q, i, j) ==
    LET parent == NodeAt(tree, q)
        kids == [k \in 1..Len(parent.children) |->
                    IF k = i THEN parent.children[j]
                    ELSE IF k = j THEN parent.children[i]
                    ELSE parent.children[k]]
    IN  ReplaceAt(tree, q, [parent EXCEPT !.children = kids])

\* The node id resolves to is a child and has a sibling on the side the
\* direction names.
HasNeighbour(tree, id, direction) ==
    /\ id # "root"
    /\ id \in IdsOf(tree)
    /\ PositionOf(tree, id) # <<>>
    /\ LET p == PositionOf(tree, id)
       IN  IF direction = "up" THEN Last(p) > 1
           ELSE Last(p) < Len(NodeAt(tree, Front(p)).children)

Opposite(direction) == IF direction = "up" THEN "down" ELSE "up"

\* The first half of C31: moveComponent(id, direction) on a node that is
\* not at the corresponding end of its sibling list exchanges the node with
\* its immediate previous (up) or next (down) sibling and changes nothing
\* else in the tree.
C31_SwapsWithNeighbour ==
    \A id \in CallIds, direction \in {"up", "down"} :
        HasNeighbour(root, id, direction) =>
            LET p == PositionOf(root, id)
                j == IF direction = "up" THEN Last(p) - 1 ELSE Last(p) + 1
            IN  moveComponent(id, direction) = Exchanged(root, Front(p), Last(p), j)

\* C31: moveComponent(id, direction) on a node that is not at the
\* corresponding end of its sibling list exchanges the node with its
\* immediate neighbour on that side and changes nothing else, and the
\* opposite call on the tree it returns gives back the tree it was called on:
\* up then down restores the tree whenever the node was not the first child,
\* down then up whenever it was not the last.
C31_MoveThenBackRestores ==
    /\ []C31_SwapsWithNeighbour
    /\ [][\A id \in CallIds, direction \in {"up", "down"} :
            (HasNeighbour(root, id, direction)
             /\ root' = moveComponent(id, direction))
                => moveComponent(id, Opposite(direction))' = root]_vars

\* The inverse law on the trees in which every id names one node.
C31_RestoresWhenIdsUnique ==
    [][\A id \in CallIds, direction \in {"up", "down"} :
            (HasNeighbour(root, id, direction)
             /\ Cardinality(PathsOf(root, id)) = 1
             /\ \A other \in IdsOf(root) : Cardinality(PathsOf(root, other)) = 1
             /\ root' = moveComponent(id, direction))
                => moveComponent(id, Opposite(direction))' = root]_vars

(* ------------------- properties: the insert position ------------------- *)

\* min(max(index, 0), n)
MinMax(index, n) ==
    CHOOSE k \in 0..n :
        /\ index <= 0 => k = 0
        /\ index >= n => k = n
        /\ (index > 0 /\ index < n) => k = index

BaseBody(run, config, emptyText) ==
    IF "body" \notin DOMAIN config THEN EmptyMap
    ELSE IF IsObj(config.body) THEN config.body.obj
    ELSE IF config.body.str = <<>> THEN emptyText
    ELSE IF JSONparse(config.body.str) # Null
         THEN OwnProps(JSONparse(config.body.str)[1])
    ELSE (cValue :> evaluateExpression(config.body, Obj(Merged(run))))

\* Every request made so far was built from its action's config as stated,
\* emptyText being the base body taken for the empty body text.
RequestsBuilt(emptyText) ==
    \A r \in 1..Len(runs) :
        \A q \in Range(runs[r].requests) :
            LET config == runs[r].actions[q.idx].config[1]
                base == BaseBody(runs[r], config, emptyText)
            IN  /\ q.url = config.url
                /\ q.method = (IF "method" \in DOMAIN config /\ config.method # ""
                               THEN config.method ELSE "POST")
                /\ q.method = "GET" => q.body = Null
                /\ q.method # "GET" =>
                     /\ q.body # Null
                     /\ DOMAIN q.body[1].obj = DOMAIN base \cup {cContext}
                     /\ q.body[1].obj[cContext] = Obj(runs[r].globalData)
                     /\ \A k \in DOMAIN base \ {cContext} :
                            q.body[1].obj[k] = base[k]

\* C33: the request of an n8n-webhook action has method config.method, or
\* POST when there is none; its base body is config.body when that is an
\* object, the own properties of the parsed JSON when it is a text that
\* parses, { value: evaluated template } when it is a non-empty text that
\* does not parse, and empty when config.body is absent or the empty text;
\* the body sent is the base body plus `context`, which overrides a
\* `context` key of the base body; a GET request has no body.
C33_RequestBuilt == RequestsBuilt(EmptyMap)

\* C33 as stated: as above, but the empty text, which does not parse, gives
\* the base body { value: evaluated template } like every other text that
\* does not parse.
C33_RequestBuiltAsStated ==
    RequestsBuilt((cValue :> evaluateExpression(Str(<<>>), Obj(EmptyMap))))

\* A GET request went out without a body although its config has one, and
\* a request whose base body has a `context` key of its own went out with
\* the data context under that key and the other key as configured.
C33_Witness_GetAndOverride ==
    /\ \E r \in 1..Len(runs) : \E q \in Range(runs[r].requests) :
           /\ q.method = "GET"
           /\ "body" \in DOMAIN runs[r].actions[q.idx].config[1]
           /\ q.body = Null
    /\ \E r \in 1..Len(runs) : \E q \in Range(runs[r].requests) :
           /\ "body" \in DOMAIN runs[r].actions[q.idx].config[1]
           /\ runs[r].actions[q.idx].config[1].body = BodyWithContext
           /\ q.body[1].obj[cContext] = Obj(runs[r].globalData)
           /\ q.body[1].obj[cContext] # BodyWithContext.obj[cContext]
           /\ q.body[1].obj[cK] = Num(1)
           /\ cLastResult \in DOMAIN runs[r].globalData

(* --------------------- properties: termination ------------------------- *)

\* The invocation has started action 1, then 2, ..., each once, up to some
\* action of its list.
StartedInOrder(run) ==
    /\ Len(Started(run)) <= Len(run.actions)
    /\ Started(run) = [n \in 1..Len(Started(run)) |-> n]

\* An invocation that waits for the outbound call of action pc has applied
\* no response mapping of that action, has started no later action and has
\* not completed.
WaitsAtCall(run) ==
    run.phase \in {"fetch", "json"} =>
        /\ IsWebhook(run, run.pc)
        /\ Started(run) = [n \in 1..run.pc |-> n]
        /\ WritesOf(run, run.pc) = <<>>
        /\ \A e \in Range(run.trace) :
               e.idx = run.pc => e.ev \notin {"response", "end"}
        /\ run.status = "pending"

\* A waiting invocation goes on only when its call settles: a step that
\* changes it either is the fulfilment of fetch, after which it waits for the
\* body, or records the outcome of the call.
OnlySettlingResumes ==
    \A r \in 1..Len(runs) :
        (runs[r].phase \in {"fetch", "json"} /\ runs'[r] # runs[r])
            => \/ runs'[r] = [runs[r] EXCEPT !.phase = "json"]
               \/ /\ Len(runs'[r].settled) = Len(runs[r].settled) + 1
                  /\ runs'[r].settled[Len(runs'[r].settled)].idx = runs[r].pc

\* The invocation has completed, having started every action of its list
\* exactly once and in order.
Completed(run) ==
    /\ run.phase = "done"
    /\ run.status = "resolved"
    /\ Started(run) = [n \in 1..Len(run.actions) |-> n]

\* C34: an invocation of runActions is a single pass, every action of its
\* list started at most once and in list order; when every outbound call
\* settles in the end, every invocation completes in the end, having started
\* every action exactly once; and as long as an outbound call has not
\* settled, the response mapping of its action is not applied, no later
\* action of the list is started and the invocation is not complete: only
\* the settling of the call makes the invocation go on.
C34_SinglePassCompletes ==
    /\ [](\A r \in 1..Len(runs) : StartedInOrder(runs[r]) /\ WaitsAtCall(runs[r]))
    /\ [][OnlySettlingResumes]_vars
    /\ \A r \in 1..MaxRuns :
           (Len(runs) >= r) ~> (Len(runs) >= r /\ Completed(runs[r]))

\* An invocation of ListA has completed after its outbound call was
\* answered, all three actions started once, while another invocation still
\* waits for its call, with only the actions up to that call started.
C34_Witness_OneDoneOneWaiting ==
    \E r \in 1..Len(runs), w \in 1..Len(runs) :
        /\ runs[r].actions = ListA
        /\ Completed(runs[r])
        /\ \E e \in Range(runs[r].settled) : e.outcome = "ok"
        /\ runs[w].phase \in {"fetch", "json"}
        /\ runs[w].pc < Len(runs[w].actions)
        /\ Len(Started(runs[w])) = runs[w].pc

(* ------------------ properties: the context snapshot ------------------- *)

\* What the template '{{ k }}' gives in the invocation: the k of the local
\* context, else the k the data context held when the invocation started,
\* else undefined.
SnapshotOfK(run) ==
    IF cK \in DOMAIN run.localContext THEN run.localContext[cK]
    ELSE IF cK \in DOMAIN run.globalData THEN run.globalData[cK]
    ELSE Undefined

\* Every template the invocation has evaluated so far gave what it gives
\* against the merged context of the invocation's start: the values the
\* setState actions wrote, the messages logged and alerted, and the `value`
\* of a body text that does not parse.
TemplatesReadSnapshot(run) ==
    /\ \A e \in Range(run.trace) :
           LET action == run.actions[e.idx]
           IN  /\ (e.ev = "write" /\ action.type = "setState") =>
                      /\ e.value = evaluateExpression(Field(action.config[1], "value"),
                                                      Obj(Merged(run)))
                      /\ action.config[1].value = Str(cRefK) => e.value = SnapshotOfK(run)
               /\ e.ev \in {"log", "alert"} =>
                      /\ e.value = evaluateExpression(Field(action.config[1], "message"),
                                                      Obj(Merged(run)))
                      /\ action.config[1].message = Str(cRefK) => e.value = SnapshotOfK(run)
    /\ \A q \in Range(run.requests) :
           LET config == run.actions[q.idx].config[1]
           IN  ("body" \in DOMAIN config /\ config.body = Str(cRefK)) =>
                   q.body[1].obj[cValue] = SnapshotOfK(run)

\* The data context an invocation reads is the one the store holds when
\* runActions is called with a list that is not empty, and it stays the
\* invocation's for good, as does the local context.
SnapshotTakenOnce ==
    /\ \A r \in 1..Len(runs) :
           /\ runs'[r].globalData = runs[r].globalData
           /\ runs'[r].localContext = runs[r].localContext
    /\ \A r \in (Len(runs) + 1)..Len(runs') :
           runs'[r].actions # <<>> => runs'[r].globalData = storeData

\* C35: every template of an invocation (setState value, consoleLog and
\* alert message, a webhook body that does not parse) is evaluated against
\* the merged context built once, when the invocation starts; a later write
\* to the data context, by an earlier action of the same list or by another
\* list, is not seen: in [setState(k, 1), setState(m, '{{ k }}')] m receives
\* the value k had before the list started.
C35_TemplatesReadStartContext ==
    /\ [](\A r \in 1..Len(runs) : TemplatesReadSnapshot(runs[r]))
    /\ [][SnapshotTakenOnce]_vars

\* ListF has run to its end in a data context without k: it wrote k = 1 and
\* its response mapping wrote k = 7, yet m was written undefined, undefined
\* was logged, sent as the body's value and alerted.
C35_Witness_OwnWritesUnseen ==
    \E r \in 1..Len(runs) :
        /\ runs[r].actions = ListF
        /\ runs[r].phase = "done"
        /\ cK \notin DOMAIN runs[r].globalData
        /\ WritesOf(runs[r], 1) = << <<cK, Num(1)>> >>
        /\ WritesOf(runs[r], 4) = << <<cK, Num(7)>> >>
        /\ WritesOf(runs[r], 2) = << <<cM, Undefined>> >>
        /\ \E e \in Range(runs[r].trace) :
               e.idx = 5 /\ e.ev = "alert" /\ e.value = Undefined
        /\ \E q \in Range(runs[r].requests) : q.body[1].obj[cValue] = Undefined
        /\ storeData[cK] # Undefined

(* ----------------- properties: what an operation leaves ---------------- *)

\* The states the store is in after one call of an operation that edits the
\* tree or the selection, for every argument.
TreeCallResults ==
    {Merge(StoreState, selectComponentState(id)) :
        id \in {Some(i) : i \in CallIds} \cup {Null}}
    \cup {Merge(StoreState, addComponentState(parentId, type, now)) :
            parentId \in CallIds, type \in AddTypes}
    \cup {Merge(StoreState, updateComponentState(id, updates)) :
            id \in CallIds, updates \in CallUpdates}
    \cup {Merge(StoreState, deleteComponentState(id)) : id \in CallIds}
    \cup {Merge(StoreState, moveComponentState(id, direction)) :
            id \in CallIds, direction \in {"up", "down"}}
    \cup {Merge(StoreState, moveComponentToState(dragId, targetId, index)) :
            dragId \in CallIds, targetId \in CallIds, index \in CallIndexes}

\* C36: setRoot(newRoot) replaces the tree and nothing else: the data
\* context and the selected id after the call are those before it, also
\* when the selected id names no node of the new tree; and selectComponent,
\* addComponent, updateComponent, deleteComponent, moveComponent and
\* moveComponentTo leave the data context as it is.
C36_SetRootReplacesOnlyTree ==
    /\ \A text \in SessionFiles :
           handleLoad(text).alert = "" =>
               LET after == Merge(StoreState, setRootState(handleLoad(text).root))
               IN  /\ after.root = FromJson(Member(parseDocument(text)[1], "root")[1])
                   /\ after.selectedId = selectedId
                   /\ after.storeData = storeData
    /\ \A after \in TreeCallResults : after.storeData = storeData

\* A document was loaded while a node added before was selected and the
\* data context had been written: the selected id names no node of the new
\* tree, getComponentById returns null for it, and the data is still there.
C36_Witness_SelectionOutlivesTree ==
    /\ root.id = ForeignTree.id
    /\ selectedId \in {Some(NewId(type, 0)) : type \in AddTypes}
    /\ getComponentById(selectedId[1]) = Null
    /\ cK \in DOMAIN storeData
    /\ notice = ""

(* ------------------ properties: the selection after add ---------------- *)

\* C37: after every addComponent(parentId, type) call the selected id is
\* the id generated for the new node, and that id names a node of the tree,
\* the new node, which is the last child of its parent: the selection is
\* never set to an id the tree does not hold, whatever parentId resolves to.
C37_SelectionNamesNewNode ==
    \A parentId \in CallIds, type \in AddTypes :
        LET after == Merge(StoreState, addComponentState(parentId, type, now))
        IN  /\ after.selectedId = Some(NewId(type, now))
            /\ findNode(after.root, NewId(type, now)) # Null
            /\ \E p \in Paths(after.root) :
                   LET kids == NodeAt(after.root, p).children
                   IN  /\ kids # <<>>
                       /\ kids[Len(kids)] = NewComponent(type, now)
                       /\ Len(kids) = Len(NodeAt(root, p).children) + 1

\* The same for the calls whose parentId names a node of the tree.
C37_HoldsWhenParentExists ==
    \A parentId \in IdsOf(root) \cup {"root"}, type \in AddTypes :
        LET after == Merge(StoreState, addComponentState(parentId, type, now))
        IN  /\ after.selectedId = Some(NewId(type, now))
            /\ findNode(after.root, NewId(type, now)) # Null
            /\ \E p \in Paths(after.root) :
                   LET kids == NodeAt(after.root, p).children
                   IN  /\ kids # <<>>
                       /\ kids[Len(kids)] = NewComponent(type, now)

(* ------------------- properties: the edit surface ---------------------- *)

\* The node a call of the store puts a node into, in the tree the call
\* looks the target up in, is of a container kind.
InsertsIntoContainer(tree, targetId) ==
    findNode(tree, targetId) # Null =>
        findNode(tree, targetId)[1].type \in ContainerKinds

\* The calls the handlers issue in this state all put a node into a node of
\* a container kind.
SurfaceTargetsContainers ==
    /\ handleAddComponent # Null =>
           (handleAddComponent[1] # "root" =>
                InsertsIntoContainer(root, handleAddComponent[1]))
    /\ \A activeId \in IdsOf(root), overId \in IdsOf(root) :
           handleDragEnd(activeId, overId) # Null =>
               LET call == handleDragEnd(activeId, overId)[1]
               IN  MoveGoesThrough(call.dragId, call.targetId) =>
                       InsertsIntoContainer(
                           Detach(root, removeNode(root, call.dragId)[1]),
                           call.targetId)

\* No node of a leaf kind has a children list.
LeavesChildless ==
    \A p \in Paths(root) :
        NodeAt(root, p).type \in LeafKinds => ~NodeAt(root, p).hasChildren

\* C38: through the edit surface no leaf gains children: from a tree in
\* which exactly the nodes of a container kind have a children list, after
\* every sequence of handleAddComponent and handleDragEnd events, with any
\* node selected and any active and over element, every call the handlers
\* issue puts a node into a node of a container kind, and every leaf is
\* still without a children list.
C38_SurfaceKeepsLeavesChildless ==
    /\ SurfaceTargetsContainers
    /\ LeavesChildless

\* No id is carried by both a leaf and a node of a container kind.
IdsOfOneKind ==
    \A p \in Paths(root), q \in Paths(root) :
        NodeAt(root, p).id = NodeAt(root, q).id
            => (NodeAt(root, p).type \in ContainerKinds
                    <=> NodeAt(root, q).type \in ContainerKinds)

\* The same on the trees in which no id is carried by both a leaf and a
\* node of a container kind.
C38_HoldsWhenIdsOfOneKind ==
    IdsOfOneKind => (SurfaceTargetsContainers /\ LeavesChildless)

(* ------------------- properties: sibling reorder ----------------------- *)

\* The tree in which child i of the node at position q has been taken to
\* index j of the same child list, the other children keeping their order.
Reordered(tree, q, i, j) ==
    LET parent == NodeAt(tree, q)
        kids == parent.children
        moved == [k \in 1..Len(kids) |->
                    IF k = j THEN kids[i]
                    ELSE IF i < j
                         THEN (IF k >= i /\ k < j THEN kids[k + 1] ELSE kids[k])
                    ELSE (IF k > j /\ k <= i THEN kids[k - 1] ELSE kids[k])]
    IN  ReplaceAt(tree, q, [parent EXCEPT !.children = moved])

\* The tree after handleDragEnd(activeId, overId).
AfterDragEnd(activeId, overId) ==
    IF handleDragEnd(activeId, overId) = Null THEN root
    ELSE LET call == handleDragEnd(activeId, overId)[1]
         IN  moveComponentTo(call.dragId, call.targetId, call.index)

\* handleDragEnd reorders: for the children i and j of the node at q it
\* returns the tree with child i at index j.
ReordersSiblings(q, i, j) ==
    LET kids == NodeAt(root, q).children
    IN  AfterDragEnd(kids[i].id, kids[j].id) = Reordered(root, q, i, j)

\* C39: when the active and the over node are distinct children of one
\* parent, handleDragEnd returns the tree in which the active node stands
\* at the index the over node had, the other children of the parent keep
\* their relative order and no node has entered or left the parent, whether
\* the active node stood before the over node or after it.
C39_SiblingDragReorders ==
    \A q \in Paths(root) :
        \A i \in 1..Len(NodeAt(root, q).children),
           j \in 1..Len(NodeAt(root, q).children) :
            i # j => ReordersSiblings(q, i, j)

\* The same on the trees whose ids are pairwise distinct.
C39_HoldsWhenIdsUnique ==
    Cardinality(IdsOf(root)) = NodeCount(root) => C39_SiblingDragReorders

====
